---- MODULE Spec2Model ----
(***************************************************************************)
(* TikTok comments crawler: the job table and the background crawl of      *)
(* backend_api/main.py, the retry loop of crawlers/base_crawler.py and the *)
(* token cache of crawlers/tiktok/web/utils.py.                            *)
(*                                                                         *)
(* The server runs on one asyncio event loop: code between two awaits is   *)
(* atomic.  Every action below is a piece of code without an await inside; *)
(* a program counter that is not a suspension point is the middle of such  *)
(* a piece, and no other coroutine or handler runs while some job is       *)
(* there (Quiescent).                                                      *)
(***************************************************************************)
EXTENDS Integers, Sequences, FiniteSets, TLC

(***************************************************************************)
(* Bounds of the model.                                                    *)
(***************************************************************************)
\* top-level pages the remote serves to one crawl before it must answer
\* has_more = false
MaxPages == 2
\* reply pages the remote serves to one reply crawl before has_more = false
MaxReplyPages == 2
\* comments with a cid the remote serves to one crawl
MaxParents == 29
\* top-level pages of a crawl that is followed to the cap of its progress
MaxLongPages == 21

\* uuid4 values start_crawl can draw
TaskIds == {"t1", "t2"}
\* the value it draws where one job is followed through its whole crawl
OneJob == {"t1"}
\* the pages the remote answers with where two jobs are followed
TablePages == {<<1, 0>>}
\* the instants datetime.now() is read at
Instants == {0, 3600, 3601}
\* the parent comments whose reply crawl the remote may fail; every other
\* reply crawl is answered
Unreliable == {1, 2}
\* the parent comments whose replies the remote may serve over several
\* pages; every other reply crawl gets one final page
LongThreads == {1}
\* the pages of a long crawl, <<comments with a cid, comments without one,
\* has_more>>: every page but the last holds one comment without a cid
LongPages == {<<0, 1, TRUE>>, <<0, 1, FALSE>>, <<10, 0, FALSE>>}
\* the pages the remote may answer with: <<comments with a cid, comments
\* without one>>
PageChoices == {<<0, 0>>, <<10, 0>>, <<19, 1>>}

(***************************************************************************)
(* Program constants.                                                      *)
(***************************************************************************)
batch_size == 8
\* cleanup_tasks: the age in seconds above which a terminal job is removed
retention == 3600

VARIABLES
    tasks,        \* the job table: task_id -> record (main.py tasks)
    pc,           \* task_id -> where its background execution stands
    fc,           \* task_id -> locals of fetch_comments_with_progress
    fr,           \* task_id -> locals of fetch_replies_with_progress
    crawls,       \* task_id -> the reply crawls of the batch being gathered
    artifact,     \* task_id -> the result file: <<>> or <<formatted data>>
    remote,       \* task_id -> what the remote API saw and served (observer)
    now,          \* datetime.now(), in seconds
    crawler,      \* task_id -> the aclient of the job's TikTokWebCrawler
    sg,           \* the calls of BogusManager made so far
    fan,          \* job -> where its reply fan-out stands (many jobs)
    fx,           \* one get_fetch_data / post_fetch_data / head_fetch_data call
    tm,           \* one TokenManager: its tokens, and the acquisitions made
    calls         \* caller -> its get_token call

jobVars == <<tasks, pc, fc, fr, crawls, artifact, remote, now, crawler>>
vars == <<tasks, pc, fc, fr, crawls, artifact, remote, now, crawler, fx, tm, calls, sg, fan>>

(***************************************************************************)
(* Progress is a Python float; the values written are rationals, kept here *)
(* as a reduced fraction <<numerator, denominator>>.                       *)
(***************************************************************************)
RECURSIVE GCD(_, _)
GCD(a, b) == IF b = 0 THEN a ELSE GCD(b, a % b)

Frac(n, d) == LET g == GCD(n, d) IN <<n \div g, d \div g>>

Whole(n) == <<n, 1>>

FLeq(a, b) == a[1] * b[2] <= b[1] * a[2]

Min(a, b) == IF a <= b THEN a ELSE b

RECURSIVE SumOver(_, _)
SumOver(f, S) ==
    IF S = {} THEN 0
    ELSE LET x == CHOOSE y \in S : TRUE IN f[x] + SumOver(f, S \ {x})

\* sum(reply_counts.values())
SumValues(f) == SumOver(f, DOMAIN f)

(***************************************************************************)
(* Program counters.  Suspension points are the awaits of the background   *)
(* execution; "idle" is no execution, "done" one that returned, "escaped"  *)
(* one that an exception left.                                             *)
(***************************************************************************)
SuspensionPoints == {"idle", "queued", "fc_wait", "fc_sleep", "fr_gather", "fr_sleep", "done",
                     "escaped"}

Quiescent == \A t \in TaskIds : pc[t] \in SuspensionPoints

\* the other coroutines are all suspended, so t's coroutine may be resumed
\* (or is already the one running)
MayRun(t) == \A u \in TaskIds \ {t} : pc[u] \in SuspensionPoints

Terminal == {"completed", "failed", "cancelled"}

NoLocalsFc == [all_comments |-> <<>>, has_more |-> TRUE, cursor |-> 0, page |-> 0]

NoCounts == [c \in {} |-> 0]

NoLocalsFr == [valid_comments |-> <<>>, reply_counts |-> NoCounts, i |-> 0, processed |-> 0]

\* what the remote API saw and served for one crawl: the top-level page
\* requests, the comments served, the reply page requests, the replies
\* served per parent comment, the parents one of whose reply pages failed;
\* the cursor of the page request that is not answered (request) and the
\* cursor the last page returned (told), each a sequence of one element at
\* most
NoRemote == [page_requests |-> 0, served |-> <<>>, reply_requests |-> 0,
             replied |-> NoCounts, refused |-> {},
             request |-> <<>>, told |-> <<>>]

InitJobs ==
    /\ tasks = [u \in {} |-> 0]
    /\ pc = [t \in TaskIds |-> "idle"]
    /\ fc = [t \in TaskIds |-> NoLocalsFc]
    /\ fr = [t \in TaskIds |-> NoLocalsFr]
    /\ crawls = [t \in TaskIds |-> NoCounts]
    /\ artifact = [t \in TaskIds |-> <<>>]
    /\ remote = [t \in TaskIds |-> NoRemote]
    /\ now = 0
    /\ crawler = [t \in TaskIds |-> "none"]

\* tasks[task_id][field] = value
SetTask(t, field, value) == [tasks EXCEPT ![t][field] = value]

(***************************************************************************)
(* start_crawl: registers the job and queues its background execution.     *)
(***************************************************************************)
start_crawl(t, include_replies) ==
    /\ Quiescent
    /\ t \notin DOMAIN tasks
    /\ pc[t] = "idle"
    /\ tasks' = [u \in DOMAIN tasks \cup {t} |->
                    IF u = t
                    THEN [status |-> "pending", progress |-> Whole(0),
                          comments |-> 0, replies |-> 0,
                          download_url |-> FALSE, error |-> FALSE,
                          created_at |-> now,
                          include_replies |-> include_replies]
                    ELSE tasks[u]]
    /\ pc' = [pc EXCEPT ![t] = "queued"]
    /\ UNCHANGED <<fc, fr, crawls, artifact, remote>>
    /\ UNCHANGED <<crawler, now, fx, tm, calls, sg, fan>>

(***************************************************************************)
(* cancel_crawl with a task_id and without one.                            *)
(***************************************************************************)
\* a cancel that does not look at the status
CancelAnyStatus(tbl, t) == [tbl EXCEPT ![t].status = "cancelled"]

CancelOne(tbl, t) ==
    IF tbl[t].status \in {"pending", "running"}
    THEN [tbl EXCEPT ![t].status = "cancelled"]
    ELSE tbl

cancel_crawl(t) ==
    /\ Quiescent
    /\ t \in DOMAIN tasks
    /\ tasks' = CancelOne(tasks, t)
    /\ UNCHANGED <<pc, fc, fr, crawls, artifact, remote>>
    /\ UNCHANGED <<crawler, now, fx, tm, calls, sg, fan>>

\* lines 205-206: HTTPException 404
cancel_crawl_not_found(t) ==
    /\ Quiescent
    /\ t \notin DOMAIN tasks
    /\ UNCHANGED vars

\* cancel_crawl: the answer to a request with a task_id
cancel_crawl_response(t) ==
    IF t \in DOMAIN tasks THEN "Task cancelled" ELSE "Task not found"

\* lines 216-222: the count the handler reports
cancelled_count ==
    Cardinality({ u \in DOMAIN tasks : tasks[u].status \in {"pending", "running"} })

\* a cancel of everything that only stops the running jobs
cancel_all_running_only ==
    /\ Quiescent
    /\ tasks' = [u \in DOMAIN tasks |->
                    IF tasks[u].status = "running"
                    THEN [tasks[u] EXCEPT !.status = "cancelled"] ELSE tasks[u]]
    /\ UNCHANGED <<pc, fc, fr, crawls, artifact, remote>>
    /\ UNCHANGED <<crawler, now, fx, tm, calls, sg, fan>>

cancel_all ==
    /\ Quiescent
    /\ tasks' = [u \in DOMAIN tasks |-> CancelOne(tasks, u)[u]]
    /\ UNCHANGED <<pc, fc, fr, crawls, artifact, remote>>
    /\ UNCHANGED <<crawler, now, fx, tm, calls, sg, fan>>

(***************************************************************************)
(* crawl_video_comments, the background execution of one job.              *)
(***************************************************************************)
\* lines 401-415 and 474-477: the execution starts; TikTokWebCrawler()
\* builds the aclient of the crawler (base_crawler.py lines 41-46)
cv_start(t) ==
    /\ pc[t] = "queued"
    /\ t \in DOMAIN tasks
    /\ MayRun(t)
    /\ tasks' = [tasks EXCEPT ![t].status = "running", ![t].progress = Whole(10)]
    /\ fc' = [fc EXCEPT ![t] = NoLocalsFc]
    /\ pc' = [pc EXCEPT ![t] = "fc_loop"]
    /\ UNCHANGED <<fr, crawls, artifact, remote>>
    /\ UNCHANGED <<now, fx, tm, calls, sg, fan>>
    /\ crawler' = [crawler EXCEPT ![t] = "open"]

\* line 405, then TikTokWebCrawler() at line 410 raises
cv_start_raise(t) ==
    /\ pc[t] = "queued"
    /\ t \in DOMAIN tasks
    /\ MayRun(t)
    /\ tasks' = SetTask(t, "status", "running")
    /\ pc' = [pc EXCEPT ![t] = "cv_except"]
    /\ UNCHANGED <<fc, fr, crawls, artifact, remote>>
    /\ UNCHANGED <<crawler, now, fx, tm, calls, sg, fan>>

(***************************************************************************)
(* fetch_comments_with_progress.                                           *)
(***************************************************************************)
\* a loop condition that does not look at the job
FcContinueBlind(t) == fc[t].has_more

\* a loop condition that also stops at the page size of accumulated items
FcContinueCapped(t) ==
    fc[t].has_more /\ tasks[t].status = "running" /\ Len(fc[t].all_comments) < 20

\* the loop condition of line 479
FcContinue(t) == fc[t].has_more /\ tasks[t].status = "running"

\* a cursor computed from the number of pages read
NextCursorByPage(t) == fc[t].page * 20

\* the cursor argument of line 482
NextCursor(t) == fc[t].cursor

\* line 479 true, lines 481-483: the next page request goes out
fc_request(t) ==
    /\ pc[t] = "fc_loop"
    /\ t \in DOMAIN tasks
    /\ FcContinue(t)
    /\ remote' = [remote EXCEPT ![t].page_requests = @ + 1,
                                ![t].request = <<NextCursor(t)>>]
    /\ pc' = [pc EXCEPT ![t] = "fc_wait"]
    /\ UNCHANGED <<tasks, fc, fr, crawls, artifact>>
    /\ UNCHANGED <<crawler, now, fx, tm, calls, sg, fan>>

\* line 479 false, line 504
fc_exit(t) ==
    /\ pc[t] = "fc_loop"
    /\ t \in DOMAIN tasks
    /\ ~FcContinue(t)
    /\ pc' = [pc EXCEPT ![t] = "cv_after_fetch"]
    /\ UNCHANGED <<tasks, fc, fr, crawls, artifact, remote>>
    /\ UNCHANGED <<crawler, now, fx, tm, calls, sg, fan>>

\* the comments of one page: nocid comments without a cid (0), then n
\* comments with the next unused cids
PageItems(served, n, nocid) ==
    LET used == Len(SelectSeq(served, LAMBDA c : c # 0))
    IN [k \in 1..nocid |-> 0] \o [k \in 1..n |-> used + k]

\* a progress without the cap
PageProgressUncapped(page) == 10 + (page * 2)

\* line 493
PageProgress(page) == Min(10 + (page * 2), 50)

\* lines 485-498: a page arrives; fetch_post_comment has left its
\* "async with self" block, whose __aexit__ closes the aclient
\* (web_crawler.py line 69, base_crawler.py lines 194-195)
fc_page(t, n, nocid, more, limit) ==
    /\ pc[t] = "fc_wait"
    /\ t \in DOMAIN tasks
    /\ MayRun(t)
    /\ more => fc[t].page + 1 < limit
    /\ Len(SelectSeq(remote[t].served, LAMBDA c : c # 0)) + n <= MaxParents
    /\ LET items == PageItems(remote[t].served, n, nocid)
           all == fc[t].all_comments \o items
       IN /\ remote' = [remote EXCEPT ![t].served = @ \o items,
                                      ![t].request = <<>>,
                                      ![t].told = <<Len(remote[t].served \o items)>>]
          /\ fc' = [fc EXCEPT ![t] = [all_comments |-> all,
                                      has_more |-> more,
                                      cursor |-> Len(remote'[t].served),
                                      page |-> @.page + 1]]
          /\ tasks' = [tasks EXCEPT ![t].progress = Whole(PageProgress(fc[t].page + 1)),
                                    ![t].comments = Len(all)]
    /\ pc' = [pc EXCEPT ![t] = "fc_sleep"]
    /\ UNCHANGED <<fr, crawls, artifact>>
    /\ UNCHANGED <<now, fx, tm, calls, sg, fan>>
    /\ crawler' = [crawler EXCEPT ![t] = "closed"]

\* a page of a crawl of MaxPages pages at most
fc_response(t, n, nocid, more) == fc_page(t, n, nocid, more, MaxPages)

\* a page of a crawl of MaxLongPages pages at most
fc_response_long(t, n, nocid, more) == fc_page(t, n, nocid, more, MaxLongPages)

\* a failed page that is not caught in the loop
fc_fail_escalates(t) ==
    /\ pc[t] = "fc_wait"
    /\ MayRun(t)
    /\ pc' = [pc EXCEPT ![t] = "cv_except"]
    /\ UNCHANGED <<tasks, fc, fr, crawls, artifact, remote>>
    /\ UNCHANGED <<now, fx, tm, calls, sg, fan>>
    /\ crawler' = [crawler EXCEPT ![t] = "closed"]

\* a failed page after which the loop returns an empty list
fc_fail_drops(t) ==
    /\ pc[t] = "fc_wait"
    /\ MayRun(t)
    /\ fc' = [fc EXCEPT ![t].all_comments = <<>>]
    /\ pc' = [pc EXCEPT ![t] = "cv_after_fetch"]
    /\ UNCHANGED <<tasks, fr, crawls, artifact, remote>>
    /\ UNCHANGED <<now, fx, tm, calls, sg, fan>>
    /\ crawler' = [crawler EXCEPT ![t] = "closed"]

\* fetch_post_comment raises, or returns None and line 485 raises:
\* lines 500-502, then 504
fc_fail(t) ==
    /\ pc[t] = "fc_wait"
    /\ MayRun(t)
    /\ pc' = [pc EXCEPT ![t] = "cv_after_fetch"]
    /\ UNCHANGED <<tasks, fc, fr, crawls, artifact, remote>>
    /\ UNCHANGED <<now, fx, tm, calls, sg, fan>>
    /\ crawler' = [crawler EXCEPT ![t] = "closed"]

\* line 498 returns
fc_wake(t) ==
    /\ pc[t] = "fc_sleep"
    /\ MayRun(t)
    /\ pc' = [pc EXCEPT ![t] = "fc_loop"]
    /\ UNCHANGED <<tasks, fc, fr, crawls, artifact, remote>>
    /\ UNCHANGED <<crawler, now, fx, tm, calls, sg, fan>>

\* lines 418-423
cv_after_fetch(t) ==
    /\ pc[t] = "cv_after_fetch"
    /\ t \in DOMAIN tasks
    /\ tasks' = [tasks EXCEPT ![t].progress = Whole(50),
                              ![t].comments = Len(fc[t].all_comments)]
    /\ pc' = [pc EXCEPT ![t] = "cv_replies"]
    /\ UNCHANGED <<fc, fr, crawls, artifact, remote>>
    /\ UNCHANGED <<crawler, now, fx, tm, calls, sg, fan>>

\* lines 426-428 and 509-517
cv_replies_yes(t) ==
    /\ pc[t] = "cv_replies"
    /\ tasks[t].include_replies
    /\ tasks' = SetTask(t, "progress", Whole(60))
    /\ LET valid == SelectSeq(fc[t].all_comments, LAMBDA c : c # 0)
       IN /\ fr' = [fr EXCEPT ![t] = [valid_comments |-> valid, reply_counts |-> NoCounts,
                                      i |-> 0, processed |-> 0]]
          /\ pc' = [pc EXCEPT ![t] = IF valid = <<>> THEN "cv_sum" ELSE "fr_loop"]
    /\ UNCHANGED <<fc, crawls, artifact, remote>>
    /\ UNCHANGED <<crawler, now, fx, tm, calls, sg, fan>>

\* lines 436-437
cv_replies_no(t) ==
    /\ pc[t] = "cv_replies"
    /\ ~tasks[t].include_replies
    /\ fr' = [fr EXCEPT ![t] = NoLocalsFr]
    /\ pc' = [pc EXCEPT ![t] = "cv_format"]
    /\ UNCHANGED <<tasks, fc, crawls, artifact, remote>>
    /\ UNCHANGED <<crawler, now, fx, tm, calls, sg, fan>>

(***************************************************************************)
(* fetch_replies_with_progress and fetch_comment_replies.                  *)
(***************************************************************************)
\* a slice one short: valid_comments[i:i+batch_size-1]
BatchRangeShort(t) ==
    { k \in 1..Len(fr[t].valid_comments) : fr[t].i < k /\ k < fr[t].i + batch_size }

\* a slice one long: valid_comments[i:i+batch_size+1]
BatchRangeWide(t) ==
    { k \in 1..Len(fr[t].valid_comments) : fr[t].i < k /\ k <= fr[t].i + batch_size + 1 }

\* valid_comments[i:i+batch_size], as the set of its positions
BatchRange(t) ==
    { k \in 1..Len(fr[t].valid_comments) : fr[t].i < k /\ k <= fr[t].i + batch_size }

\* the comment ids of the batch
BatchCids(t) == { fr[t].valid_comments[k] : k \in BatchRange(t) }

\* fetch_comment_replies at its first request: lines 562-570
\* (all_replies holds the length of the list, all that is read of it)
\* request is the cursor of the request of the crawl that is not answered,
\* told the cursor its last page returned
NewCrawl == [st |-> "wait", all_replies |-> 0, has_more |-> TRUE, rpage |-> 0, cursor |-> 0,
             request |-> <<0>>, told |-> <<>>]

\* the cursor argument of line 569
ReplyCursor(cursor) == cursor

\* a launch that does not test the status of the job
fr_launch_blind(t) ==
    /\ pc[t] = "fr_loop"
    /\ fr[t].i < Len(fr[t].valid_comments)
    /\ crawls' = [crawls EXCEPT ![t] = [c \in BatchCids(t) |-> NewCrawl]]
    /\ remote' = [remote EXCEPT ![t].reply_requests = @ + Cardinality(BatchCids(t)),
                                ![t].replied = [c \in DOMAIN @ \cup BatchCids(t) |->
                                                  IF c \in DOMAIN @ THEN @[c] ELSE 0]]
    /\ pc' = [pc EXCEPT ![t] = "fr_gather"]
    /\ UNCHANGED <<tasks, fc, fr, artifact>>
    /\ UNCHANGED <<crawler, now, fx, tm, calls, sg, fan>>

\* line 519 has a next i, line 520 passes, lines 523-533: the batch is
\* launched, every crawl of it sends its first request
fr_launch(t) ==
    /\ pc[t] = "fr_loop"
    /\ fr[t].i < Len(fr[t].valid_comments)
    /\ tasks[t].status = "running"
    /\ crawls' = [crawls EXCEPT ![t] = [c \in BatchCids(t) |-> NewCrawl]]
    /\ remote' = [remote EXCEPT ![t].reply_requests = @ + Cardinality(BatchCids(t)),
                                ![t].replied = [c \in DOMAIN @ \cup BatchCids(t) |->
                                                  IF c \in DOMAIN @ THEN @[c] ELSE 0]]
    /\ pc' = [pc EXCEPT ![t] = "fr_gather"]
    /\ UNCHANGED <<tasks, fc, fr, artifact>>
    /\ UNCHANGED <<crawler, now, fx, tm, calls, sg, fan>>

\* the range of line 519 is exhausted, or line 520 breaks: line 557
fr_exit(t) ==
    /\ pc[t] = "fr_loop"
    /\ \/ fr[t].i >= Len(fr[t].valid_comments)
       \/ tasks[t].status # "running"
    /\ pc' = [pc EXCEPT ![t] = "cv_sum"]
    /\ UNCHANGED <<tasks, fc, fr, crawls, artifact, remote>>
    /\ UNCHANGED <<crawler, now, fx, tm, calls, sg, fan>>

\* the answers the remote may give to a reply page of comment c
ReplyAnswers(c, rpage) ==
    IF c \in LongThreads
    THEN { [n |-> 1, more |-> m] : m \in { b \in BOOLEAN : b => rpage + 1 < MaxReplyPages } }
    ELSE { [n |-> 1, more |-> FALSE] }

\* the loop condition of line 566
ReplyContinue(has_more) == has_more

\* lines 572-578, then line 566: a reply page arrives; after the pause the
\* crawl sends its next request or returns (the pause touches nothing
\* shared and the crawl reads no job state)
reply_response(t, c, ans) ==
    /\ pc[t] = "fr_gather"
    /\ MayRun(t)
    /\ c \in DOMAIN crawls[t]
    /\ crawls[t][c].st = "wait"
    /\ ans \in ReplyAnswers(c, crawls[t][c].rpage)
    /\ crawls' = [crawls EXCEPT ![t][c] =
                    [st |-> IF ReplyContinue(ans.more) THEN "wait" ELSE "done",
                     all_replies |-> @.all_replies + ans.n,
                     has_more |-> ans.more,
                     rpage |-> @.rpage + 1,
                     cursor |-> @.all_replies + ans.n,
                     request |-> IF ReplyContinue(ans.more)
                                 THEN <<ReplyCursor(@.all_replies + ans.n)>> ELSE <<>>,
                     told |-> <<@.all_replies + ans.n>>]]
    /\ remote' = [remote EXCEPT ![t].reply_requests =
                                    @ + (IF ReplyContinue(ans.more) THEN 1 ELSE 0),
                                ![t].replied[c] = @ + ans.n]
    /\ UNCHANGED <<tasks, pc, fc, fr, artifact>>
    /\ UNCHANGED <<now, fx, tm, calls, sg, fan>>
    /\ crawler' = [crawler EXCEPT ![t] = "closed"]

\* fetch_post_comment_reply raises or returns None: lines 580-582, 584
reply_fail(t, c) ==
    /\ pc[t] = "fr_gather"
    /\ MayRun(t)
    /\ c \in DOMAIN crawls[t]
    /\ c \in Unreliable
    /\ crawls[t][c].st = "wait"
    /\ crawls' = [crawls EXCEPT ![t][c].st = "done"]
    /\ remote' = [remote EXCEPT ![t].refused = @ \cup {c}]
    /\ UNCHANGED <<tasks, pc, fc, fr, artifact>>
    /\ UNCHANGED <<now, fx, tm, calls, sg, fan>>
    /\ crawler' = [crawler EXCEPT ![t] = "closed"]

\* a record that counts 0 for a crawl that left its loop by a failure
RecordBatchZero(counts, batch) ==
    [c \in DOMAIN counts \cup DOMAIN batch |->
        IF c \in DOMAIN batch
        THEN (IF batch[c].has_more THEN 0 ELSE batch[c].all_replies)
        ELSE counts[c]]

\* lines 536-539: every result of the batch that is no exception is counted
\* (fetch_comment_replies catches its own errors, so every result is a list)
RecordBatch(counts, batch) ==
    [c \in DOMAIN counts \cup DOMAIN batch |->
        IF c \in DOMAIN batch THEN batch[c].all_replies ELSE counts[c]]

\* line 544
BatchProgress(processed, total) == Frac(50 * total + processed * 35, total)

\* the gather of line 533 returns, lines 536-552
fr_gathered(t) ==
    /\ pc[t] = "fr_gather"
    /\ MayRun(t)
    /\ \A c \in DOMAIN crawls[t] : crawls[t][c].st = "done"
    /\ LET counts == RecordBatch(fr[t].reply_counts, crawls[t])
           done == fr[t].processed + Cardinality(BatchRange(t))
           total == Len(fr[t].valid_comments)
       IN /\ fr' = [fr EXCEPT ![t].reply_counts = counts,
                              ![t].processed = done,
                              ![t].i = @ + batch_size]
          /\ tasks' = [tasks EXCEPT ![t].progress = BatchProgress(done, total),
                                    ![t].replies = SumValues(counts)]
          /\ pc' = [pc EXCEPT ![t] =
                      IF fr[t].i + batch_size < total THEN "fr_sleep" ELSE "fr_loop"]
    /\ crawls' = [crawls EXCEPT ![t] = NoCounts]
    /\ UNCHANGED <<fc, artifact, remote>>
    /\ UNCHANGED <<crawler, now, fx, tm, calls, sg, fan>>

\* line 552 returns
fr_wake(t) ==
    /\ pc[t] = "fr_sleep"
    /\ MayRun(t)
    /\ pc' = [pc EXCEPT ![t] = "fr_loop"]
    /\ UNCHANGED <<tasks, fc, fr, crawls, artifact, remote>>
    /\ UNCHANGED <<crawler, now, fx, tm, calls, sg, fan>>

(***************************************************************************)
(* crawl_video_comments, after the fetches.                                *)
(***************************************************************************)
\* lines 434-435
cv_sum(t) ==
    /\ pc[t] = "cv_sum"
    /\ tasks' = SetTask(t, "replies", SumValues(fr[t].reply_counts))
    /\ pc' = [pc EXCEPT ![t] = "cv_format"]
    /\ UNCHANGED <<fc, fr, crawls, artifact, remote>>
    /\ UNCHANGED <<crawler, now, fx, tm, calls, sg, fan>>

\* lines 440-441
cv_format(t) ==
    /\ pc[t] = "cv_format"
    /\ tasks' = SetTask(t, "progress", Whole(90))
    /\ pc' = [pc EXCEPT ![t] = "cv_save"]
    /\ UNCHANGED <<fc, fr, crawls, artifact, remote>>
    /\ UNCHANGED <<crawler, now, fx, tm, calls, sg, fan>>

\* format_crawled_data: one entry per comment, in order
format_crawled_data(comments, reply_counts) ==
    [comments |-> [k \in 1..Len(comments) |->
                     [comment_id |-> comments[k],
                      reply_comment_total |->
                          IF comments[k] \in DOMAIN reply_counts
                          THEN reply_counts[comments[k]] ELSE 0]],
     total_comments |-> Len(comments),
     total_replies |-> SumValues(reply_counts)]

\* lines 443-451: the result is formatted and written
cv_save(t) ==
    /\ pc[t] = "cv_save"
    /\ artifact' = [artifact EXCEPT ![t] =
                      <<format_crawled_data(fc[t].all_comments, fr[t].reply_counts)>>]
    /\ pc' = [pc EXCEPT ![t] = "cv_complete"]
    /\ UNCHANGED <<tasks, fc, fr, crawls, remote>>
    /\ UNCHANGED <<crawler, now, fx, tm, calls, sg, fan>>

\* lines 443-451 raise (the file cannot be written)
cv_save_raise(t) ==
    /\ pc[t] = "cv_save"
    /\ pc' = [pc EXCEPT ![t] = "cv_except"]
    /\ UNCHANGED <<tasks, fc, fr, crawls, artifact, remote>>
    /\ UNCHANGED <<crawler, now, fx, tm, calls, sg, fan>>

\* lines 454-460
cv_complete(t) ==
    /\ pc[t] = "cv_complete"
    /\ tasks' = [tasks EXCEPT ![t].status = "completed",
                              ![t].progress = Whole(100),
                              ![t].download_url = TRUE]
    /\ pc' = [pc EXCEPT ![t] = "done"]
    /\ UNCHANGED <<fc, fr, crawls, artifact, remote>>
    /\ UNCHANGED <<crawler, now, fx, tm, calls, sg, fan>>

\* lines 462-467
cv_except(t) ==
    /\ pc[t] = "cv_except"
    /\ tasks' = [tasks EXCEPT ![t].status = "failed", ![t].error = TRUE]
    /\ pc' = [pc EXCEPT ![t] = "done"]
    /\ UNCHANGED <<fc, fr, crawls, artifact, remote>>
    /\ UNCHANGED <<crawler, now, fx, tm, calls, sg, fan>>

(***************************************************************************)
(* get_task_status and list_tasks read the table.                          *)
(***************************************************************************)
\* a response without the artifact reference
TaskStatusNoUrl(task) ==
    [status |-> task.status, progress |-> task.progress,
     stats |-> [comments |-> task.comments, replies |-> task.replies],
     download_url |-> FALSE, error |-> task.error]

\* lines 119-128 and 198: TaskStatus(**task), the answer to a poll
TaskStatus(task) ==
    [status |-> task.status, progress |-> task.progress,
     stats |-> [comments |-> task.comments, replies |-> task.replies],
     download_url |-> task.download_url, error |-> task.error]

get_task_status(t) ==
    /\ Quiescent
    /\ t \in DOMAIN tasks
    /\ UNCHANGED vars

list_tasks ==
    /\ Quiescent
    /\ UNCHANGED vars

(***************************************************************************)
(* The job table with its background executions.                           *)
(***************************************************************************)
JobNext ==
    \/ \E t \in OneJob, b \in BOOLEAN : start_crawl(t, b)
    \/ \E t \in TaskIds : cancel_crawl(t)
    \/ \E t \in TaskIds : cancel_crawl_not_found(t)
    \/ cancel_all
    \/ \E t \in TaskIds : get_task_status(t)
    \/ list_tasks
    \/ \E t \in TaskIds : cv_start(t)
    \/ \E t \in TaskIds : cv_start_raise(t)
    \/ \E t \in TaskIds : fc_request(t)
    \/ \E t \in TaskIds : fc_exit(t)
    \/ \E t \in TaskIds, p \in PageChoices, more \in BOOLEAN :
          fc_response(t, p[1], p[2], more)
    \/ \E t \in TaskIds : fc_fail(t)
    \/ \E t \in TaskIds : fc_wake(t)
    \/ \E t \in TaskIds : cv_after_fetch(t)
    \/ \E t \in TaskIds : cv_replies_yes(t)
    \/ \E t \in TaskIds : cv_replies_no(t)
    \/ \E t \in TaskIds : fr_launch(t)
    \/ \E t \in TaskIds : fr_exit(t)
    \/ \E t \in TaskIds : \E c \in DOMAIN crawls[t] :
          \E ans \in ReplyAnswers(c, crawls[t][c].rpage) : reply_response(t, c, ans)
    \/ \E t \in TaskIds : \E c \in DOMAIN crawls[t] : reply_fail(t, c)
    \/ \E t \in TaskIds : fr_gathered(t)
    \/ \E t \in TaskIds : fr_wake(t)
    \/ \E t \in TaskIds : cv_sum(t)
    \/ \E t \in TaskIds : cv_format(t)
    \/ \E t \in TaskIds : cv_save(t)
    \/ \E t \in TaskIds : cv_save_raise(t)
    \/ \E t \in TaskIds : cv_complete(t)
    \/ \E t \in TaskIds : cv_except(t)

(***************************************************************************)
(* cleanup_tasks, the clock, and an execution whose job was removed from   *)
(* the table.                                                              *)
(***************************************************************************)
\* a test that removes a job at the age of the retention window already
ExpiredAtRetention(task) == now - task.created_at >= retention

\* lines 282-283: the age test
Expired(task) == now - task.created_at > retention

\* lines 279-284
task_ids_to_remove ==
    { u \in DOMAIN tasks : tasks[u].status \in Terminal /\ Expired(tasks[u]) }

\* lines 276 and 286-290: the count the handler reports
removed_count == Cardinality(task_ids_to_remove)

\* lines 286-287
cleanup_tasks ==
    /\ Quiescent
    /\ tasks' = [u \in DOMAIN tasks \ task_ids_to_remove |-> tasks[u]]
    /\ UNCHANGED <<pc, fc, fr, crawls, artifact, remote>>
    /\ UNCHANGED <<crawler, now, fx, tm, calls, sg, fan>>

\* time passes while every coroutine is suspended
Tick ==
    /\ Quiescent
    /\ \E i \in Instants : i > now /\ now' = i
    /\ UNCHANGED <<tasks, pc, fc, fr, crawls, artifact, remote>>
    /\ UNCHANGED <<crawler, fx, tm, calls, sg, fan>>

\* tasks[task_id] raises KeyError at line 405, at line 479 or (has_more
\* false, or a page failed) at line 421; the handler of line 462 catches it
\* and line 464 raises KeyError again, which leaves crawl_video_comments
cv_key_error(t) ==
    /\ pc[t] \in {"queued", "fc_loop", "cv_after_fetch"}
    /\ MayRun(t)
    /\ t \notin DOMAIN tasks
    /\ pc' = [pc EXCEPT ![t] = "escaped"]
    /\ UNCHANGED <<tasks, fc, fr, crawls, artifact, remote>>
    /\ UNCHANGED <<crawler, now, fx, tm, calls, sg, fan>>

\* lines 485-490, then line 494 raises KeyError: lines 500-502, then 504
fc_response_gone(t, n, nocid, more) ==
    /\ pc[t] = "fc_wait"
    /\ t \notin DOMAIN tasks
    /\ MayRun(t)
    /\ more => fc[t].page + 1 < MaxPages
    /\ Len(SelectSeq(remote[t].served, LAMBDA c : c # 0)) + n <= MaxParents
    /\ LET items == PageItems(remote[t].served, n, nocid)
       IN /\ remote' = [remote EXCEPT ![t].served = @ \o items,
                                      ![t].request = <<>>,
                                      ![t].told = <<Len(remote[t].served \o items)>>]
          /\ fc' = [fc EXCEPT ![t] = [all_comments |-> @.all_comments \o items,
                                      has_more |-> more,
                                      cursor |-> Len(remote'[t].served),
                                      page |-> @.page + 1]]
    /\ pc' = [pc EXCEPT ![t] = "cv_after_fetch"]
    /\ UNCHANGED <<tasks, fr, crawls, artifact>>
    /\ UNCHANGED <<now, fx, tm, calls, sg, fan>>
    /\ crawler' = [crawler EXCEPT ![t] = "closed"]

(***************************************************************************)
(* The job table with every handler, two jobs and the clock; the jobs are  *)
(* submitted with include_replies = false and every page holds one         *)
(* comment.                                                                *)
(***************************************************************************)
TableNext ==
    \/ \E t \in TaskIds : start_crawl(t, FALSE)
    \/ \E t \in TaskIds : cancel_crawl(t)
    \/ \E t \in TaskIds : cancel_crawl_not_found(t)
    \/ cancel_all
    \/ \E t \in TaskIds : get_task_status(t)
    \/ list_tasks
    \/ cleanup_tasks
    \/ Tick
    \/ \E t \in TaskIds : cv_start(t)
    \/ \E t \in TaskIds : cv_start_raise(t)
    \/ \E t \in TaskIds : fc_request(t)
    \/ \E t \in TaskIds : fc_exit(t)
    \/ \E t \in TaskIds, p \in TablePages, more \in BOOLEAN :
          fc_response(t, p[1], p[2], more)
    \/ \E t \in TaskIds, p \in TablePages, more \in BOOLEAN :
          fc_response_gone(t, p[1], p[2], more)
    \/ \E t \in TaskIds : fc_fail(t)
    \/ \E t \in TaskIds : fc_wake(t)
    \/ \E t \in TaskIds : cv_after_fetch(t)
    \/ \E t \in TaskIds : cv_replies_no(t)
    \/ \E t \in TaskIds : cv_format(t)
    \/ \E t \in TaskIds : cv_save(t)
    \/ \E t \in TaskIds : cv_save_raise(t)
    \/ \E t \in TaskIds : cv_complete(t)
    \/ \E t \in TaskIds : cv_except(t)
    \/ \E t \in TaskIds : cv_key_error(t)

(***************************************************************************)
(* One job followed through a crawl of many top-level pages.               *)
(***************************************************************************)
LongNext ==
    \/ \E t \in OneJob, b \in BOOLEAN : start_crawl(t, b)
    \/ \E t \in TaskIds : cancel_crawl(t)
    \/ \E t \in TaskIds : cv_start(t)
    \/ \E t \in TaskIds : fc_request(t)
    \/ \E t \in TaskIds : fc_exit(t)
    \/ \E t \in TaskIds, p \in LongPages : fc_response_long(t, p[1], p[2], p[3])
    \/ \E t \in TaskIds : fc_fail(t)
    \/ \E t \in TaskIds : fc_wake(t)
    \/ \E t \in TaskIds : cv_after_fetch(t)
    \/ \E t \in TaskIds : cv_replies_yes(t)
    \/ \E t \in TaskIds : cv_replies_no(t)
    \/ \E t \in TaskIds : fr_launch(t)
    \/ \E t \in TaskIds : fr_exit(t)
    \/ \E t \in TaskIds : \E c \in DOMAIN crawls[t] :
          \E ans \in ReplyAnswers(c, crawls[t][c].rpage) : reply_response(t, c, ans)
    \/ \E t \in TaskIds : \E c \in DOMAIN crawls[t] : reply_fail(t, c)
    \/ \E t \in TaskIds : fr_gathered(t)
    \/ \E t \in TaskIds : fr_wake(t)
    \/ \E t \in TaskIds : cv_sum(t)
    \/ \E t \in TaskIds : cv_format(t)
    \/ \E t \in TaskIds : cv_save(t)
    \/ \E t \in TaskIds : cv_complete(t)

(***************************************************************************)
(* One job under a scheduler that runs every coroutine that is ready and   *)
(* a network whose every call returns, with a remote that may go on        *)
(* answering has_more = true.                                              *)
(***************************************************************************)
\* the top-level pages of this remote
LivePages == {<<0, 0>>, <<2, 0>>}

\* the requests and pages the remote counts
MaxCounted == 4

\* a counter of the remote, which stops at MaxCounted
Counted(n) == IF n < MaxCounted THEN n + 1 ELSE n

\* lines 572-578: a reply page with "comments": [], has_more true and the
\* cursor of the request; all_replies, has_more and cursor are what they
\* were, and the crawl pauses at line 578
reply_response_again(t, c) ==
    /\ pc[t] = "fr_gather"
    /\ MayRun(t)
    /\ c \in DOMAIN crawls[t]
    /\ c \in LongThreads
    /\ crawls[t][c].st = "wait"
    /\ crawls' = [crawls EXCEPT ![t][c] =
                    [st |-> "pause",
                     all_replies |-> @.all_replies,
                     has_more |-> TRUE,
                     rpage |-> Counted(@.rpage),
                     cursor |-> @.all_replies,
                     request |-> <<>>,
                     told |-> <<@.all_replies>>]]
    /\ UNCHANGED <<tasks, pc, fc, fr, artifact, remote>>
    /\ UNCHANGED <<now, fx, tm, calls, sg, fan>>
    /\ crawler' = [crawler EXCEPT ![t] = "closed"]

\* the pause of line 578 is over, line 566 reads has_more and nothing of
\* the job, lines 568-570 send the same request again
reply_wake(t, c) ==
    /\ pc[t] = "fr_gather"
    /\ MayRun(t)
    /\ c \in DOMAIN crawls[t]
    /\ crawls[t][c].st = "pause"
    /\ crawls' = [crawls EXCEPT ![t][c].st = IF ReplyContinue(crawls[t][c].has_more)
                                             THEN "wait" ELSE "done",
                                ![t][c].request = <<ReplyCursor(crawls[t][c].cursor)>>]
    /\ remote' = [remote EXCEPT ![t].reply_requests = Counted(@)]
    /\ UNCHANGED <<tasks, pc, fc, fr, artifact>>
    /\ UNCHANGED <<crawler, now, fx, tm, calls, sg, fan>>

\* a step of the background execution of job t: a statement of its
\* coroutine, or the return of the network call it waits for
Run(t) ==
    \/ cv_start(t)
    \/ cv_start_raise(t)
    \/ fc_request(t)
    \/ fc_exit(t)
    \/ \E p \in LivePages, more \in BOOLEAN : fc_response(t, p[1], p[2], more)
    \/ fc_fail(t)
    \/ fc_wake(t)
    \/ cv_after_fetch(t)
    \/ cv_replies_yes(t)
    \/ cv_replies_no(t)
    \/ fr_launch(t)
    \/ fr_exit(t)
    \/ \E c \in DOMAIN crawls[t] :
          \E ans \in ReplyAnswers(c, crawls[t][c].rpage) : reply_response(t, c, ans)
    \/ \E c \in DOMAIN crawls[t] : reply_response_again(t, c)
    \/ \E c \in DOMAIN crawls[t] : reply_wake(t, c)
    \/ \E c \in DOMAIN crawls[t] : reply_fail(t, c)
    \/ fr_gathered(t)
    \/ cv_sum(t)
    \/ cv_format(t)
    \/ cv_save(t)
    \/ cv_save_raise(t)
    \/ cv_complete(t)
    \/ cv_except(t)

LiveNext ==
    \/ \E t \in OneJob, b \in BOOLEAN : start_crawl(t, b)
    \/ \E t \in TaskIds : cancel_crawl(t)
    \/ \E t \in TaskIds : Run(t)

\* the event loop resumes a coroutine that is ready, and a network call
\* returns
Fairness == \A t \in OneJob : WF_vars(Run(t))

(***************************************************************************)
(* BaseCrawler.get_fetch_data, post_fetch_data and head_fetch_data.        *)
(*                                                                         *)
(* fx is one call: its method, max_retries, the loop variable attempt,     *)
(* where it stands and what its caller receives; sent, slept and warned    *)
(* count the requests handed to the client, the backoff waits and the      *)
(* warnings logged; trace lists what the transport answered, status_code   *)
(* is that of the last response and detail the status code a raised error  *)
(* carries in its message.                                                 *)
(***************************************************************************)
\* the largest max_retries a crawler is configured with
MaxRetries == 3

Methods == {"get", "post", "head"}

\* status codes of the answers with a body; raise_for_status lets only the
\* first pass
StatusCodes == {200, 302, 404, 503, 408, 401, 429, 500}

\* status codes of the answers with a blank body
EmptyCodes == {200, 404, 429}

\* what the transport does with one request: it raises httpx.RequestError,
\* answers with a blank body, or answers with a body and a status code
TransportOutcomes ==
    {[kind |-> "request_error", code |-> 0]}
        \cup {[kind |-> "empty", code |-> c] : c \in EmptyCodes}
        \cup {[kind |-> "body", code |-> c] : c \in StatusCodes}

NoCall == [method |-> "none", max_retries |-> 0, attempt |-> 0, pc |-> "idle",
           result |-> "none", sent |-> 0, slept |-> 0, warned |-> 0, trace |-> <<>>,
           status_code |-> 0, detail |-> 0, outcomes |-> <<>>]

\* the classes of crawlers.utils.api_exceptions an "except APIError" clause
\* catches: the family imported at lines 9-19, all derived from APIError
APIErrors == {"APIConnectionError", "APIResponseError", "APITimeoutError",
              "APIUnavailableError", "APIUnauthorizedError", "APINotFoundError",
              "APIRateLimitError", "APIRetryExhaustedError"}

\* a classification without a class of its own for 429
handle_http_status_error_lumped(code) ==
    CASE code = 302 -> "pass"
      [] code = 404 -> "APINotFoundError"
      [] code = 503 -> "APIUnavailableError"
      [] code = 408 -> "APITimeoutError"
      [] code = 401 -> "APIUnauthorizedError"
      [] OTHER -> "APIResponseError"

\* handle_http_status_error: the class raised for a status code, "pass" for
\* 302
handle_http_status_error(code) ==
    CASE code = 302 -> "pass"
      [] code = 404 -> "APINotFoundError"
      [] code = 503 -> "APIUnavailableError"
      [] code = 408 -> "APITimeoutError"
      [] code = 401 -> "APIUnauthorizedError"
      [] code = 429 -> "APIRateLimitError"
      [] OTHER -> "APIResponseError"

\* the call ends: its caller receives a response, None or a raised error
Returns(f, what) == [f EXCEPT !.pc = "returned", !.result = what]

Raises(f, class) == [f EXCEPT !.pc = "raised", !.result = class]

\* the for statement of lines 84 and 114 takes the next value of attempt and
\* the request is handed to the client, or the range is exhausted and the
\* function ends without a return statement
NextAttempt(f) ==
    IF f.attempt + 1 < f.max_retries
    THEN [f EXCEPT !.attempt = @ + 1, !.pc = "inflight", !.sent = @ + 1]
    ELSE Returns(f, "None")

\* an error of class raised inside the try body of lines 85-101: the
\* clause of line 110 catches the APIError classes and displays them, and
\* the loop goes on
RaisedInTry(f, class) ==
    IF class \in APIErrors THEN NextAttempt(f) ELSE Raises(f, class)

\* a backoff after the last attempt too
OnEmptyAlwaysWaits(f) ==
    [f EXCEPT !.warned = @ + 1, !.pc = "sleep", !.slept = @ + 1]

\* a status classification that comes before the blank-body test
OnEmptyClassifiesFirst(f) ==
    IF f.status_code >= 400
    THEN Raises([f EXCEPT !.detail = f.status_code],
                handle_http_status_error(f.status_code))
    ELSE IF f.attempt = f.max_retries - 1
         THEN RaisedInTry([f EXCEPT !.warned = @ + 1], "APIRetryExhaustedError")
         ELSE [f EXCEPT !.warned = @ + 1, !.pc = "sleep", !.slept = @ + 1]

\* lines 87-98: a blank body
OnEmpty(f) ==
    IF f.attempt = f.max_retries - 1
    THEN RaisedInTry([f EXCEPT !.warned = @ + 1], "APIRetryExhaustedError")
    ELSE [f EXCEPT !.warned = @ + 1, !.pc = "sleep", !.slept = @ + 1]

\* a connection error handled like any failed attempt
OnRequestErrorRetries(f) == NextAttempt(f)

\* lines 103-105: httpx.RequestError; the error raised inside this clause
\* leaves the function
OnRequestError(f) == Raises(f, "APIConnectionError")

\* lines 100-101 and 107-108: a body with a status code; an error raised by
\* handle_http_status_error inside the except clause leaves the function
OnBody(f, code) ==
    IF code = 200
    THEN Returns(f, "response")
    ELSE LET class == handle_http_status_error(code)
         IN IF class = "pass" THEN NextAttempt(f)
            ELSE Raises([f EXCEPT !.detail = code], class)

\* head_fetch_data, lines 149-159: what the one answer leads to
OnHead(f, out) ==
    CASE out.kind = "request_error" -> Raises(f, "APIConnectionError")
      [] out.kind = "empty" /\ out.code = 200 -> Returns(f, "response")
      [] out.kind = "body" /\ out.code = 200 -> Returns(f, "response")
      [] OTHER ->
           LET class == handle_http_status_error(out.code)
           IN IF class = "pass" THEN Returns(f, "None")
              ELSE Raises([f EXCEPT !.detail = out.code], class)

\* the call has heard the transport's answer to its request
Heard(f, out) ==
    [f EXCEPT !.trace = Append(@, out.kind),
              !.status_code = IF out.kind = "request_error" THEN @ ELSE out.code,
              !.outcomes = Append(@, out)]

\* the first request of a call
FirstRequest(m, R) ==
    [NoCall EXCEPT !.method = m, !.max_retries = R, !.pc = "inflight", !.sent = 1]

\* a call in flight hears the answer out and goes on to its next request,
\* if it makes one
Answered(f, out) ==
    LET g == IF f.method = "head" THEN OnHead(Heard(f, out), out)
             ELSE CASE out.kind = "request_error" -> OnRequestError(Heard(f, out))
                    [] out.kind = "empty" -> OnEmpty(Heard(f, out))
                    [] OTHER -> OnBody(Heard(f, out), out.code)
    IN IF g.pc = "sleep" THEN NextAttempt(g) ELSE g

\* the call of method m with max_retries R whose requests are answered by
\* outs, in order, as long as it makes requests
RECURSIVE Feed(_, _)
Feed(f, outs) ==
    IF outs = <<>> \/ f.pc # "inflight" THEN f
    ELSE Feed(Answered(f, Head(outs)), Tail(outs))

\* a caller calls get or post of a crawler configured with max_retries
fx_call(m, R) ==
    /\ fx.pc = "idle"
    /\ fx' = FirstRequest(m, R)
    /\ UNCHANGED <<jobVars, tm, calls, sg, fan>>

fx_request_error ==
    /\ fx.pc = "inflight"
    /\ fx.method \in {"get", "post"}
    /\ fx' = OnRequestError(Heard(fx, [kind |-> "request_error", code |-> 0]))
    /\ UNCHANGED <<jobVars, tm, calls, sg, fan>>

fx_empty(code) ==
    /\ fx.pc = "inflight"
    /\ fx.method \in {"get", "post"}
    /\ fx' = OnEmpty(Heard(fx, [kind |-> "empty", code |-> code]))
    /\ UNCHANGED <<jobVars, tm, calls, sg, fan>>

fx_body(code) ==
    /\ fx.pc = "inflight"
    /\ fx.method \in {"get", "post"}
    /\ fx' = OnBody(Heard(fx, [kind |-> "body", code |-> code]), code)
    /\ UNCHANGED <<jobVars, tm, calls, sg, fan>>

\* lines 97-98: the backoff is over, the loop continues
fx_wake ==
    /\ fx.pc = "sleep"
    /\ fx' = NextAttempt(fx)
    /\ UNCHANGED <<jobVars, tm, calls, sg, fan>>

\* head_fetch_data, lines 148-162: one request, no loop, no blank-body test
fx_head(out) ==
    /\ fx.pc = "inflight"
    /\ fx.method = "head"
    /\ fx' = OnHead(Heard(fx, out), out)
    /\ UNCHANGED <<jobVars, tm, calls, sg, fan>>

\* the caller has its answer; the crawler is free for the next call
fx_done ==
    /\ fx.pc \in {"returned", "raised"}
    /\ fx' = NoCall
    /\ UNCHANGED <<jobVars, tm, calls, sg, fan>>

FetchNext ==
    \/ \E m \in Methods, R \in 1..MaxRetries : fx_call(m, R)
    \/ fx_request_error
    \/ \E c \in EmptyCodes : fx_empty(c)
    \/ \E c \in StatusCodes : fx_body(c)
    \/ fx_wake
    \/ \E out \in TransportOutcomes : fx_head(out)
    \/ fx_done

(***************************************************************************)
(* TokenManager.get_token.                                                 *)
(*                                                                         *)
(* tm.tokens is self.tokens; tm.acquisitions counts, per name, the network *)
(* acquisitions started.  A token value is the number of the acquisition   *)
(* that produced it, 0 when the answer did not hold the value (get_ttwid   *)
(* and get_odin_tt then return None, get_ms_token returns "").             *)
(***************************************************************************)
\* network acquisitions of one name the model follows
MaxAcquisitions == 2

\* the coroutines that call get_token of one TokenManager
Callers == {"a", "b"}

\* a map with a method for one more name
TokenNamesWide == {"msToken", "ttwid", "odin_tt", "s_v_web_id"}

\* the keys of token_method_map, lines 55-59
TokenNames == {"msToken", "ttwid", "odin_tt"}

\* the names get_token is called with
AskedNames == TokenNames \cup {"s_v_web_id"}

NoTokens == [n \in {} |-> 0]

IdleCall == [pc |-> "idle", name |-> "none", ticket |-> 0, fetched |-> FALSE, result |-> 0,
             error |-> "none", op |-> "none"]

InitTokens ==
    /\ tm = [tokens |-> NoTokens, acquisitions |-> [n \in TokenNames |-> 0]]
    /\ calls = [c \in Callers |-> IdleCall]

\* a test that never finds the entry
CachedNever(name) == FALSE

\* line 54: token_name in self.tokens
Cached(name) == name \in DOMAIN tm.tokens

\* lines 54 and 65: the name is stored, its value is returned
tk_hit(c, name) ==
    /\ calls[c].pc = "idle"
    /\ Cached(name)
    /\ calls' = [calls EXCEPT ![c] = [pc |-> "returned", name |-> name, ticket |-> 0,
                                      fetched |-> FALSE, result |-> tm.tokens[name],
                                      error |-> "none", op |-> "get_token"]]
    /\ UNCHANGED tm
    /\ UNCHANGED <<jobVars, fx, sg, fan>>

\* lines 54-62: the name is not stored and has a method: the acquisition
\* starts
tk_miss(c, name) ==
    /\ calls[c].pc = "idle"
    /\ ~Cached(name)
    /\ name \in TokenNames
    /\ tm.acquisitions[name] < MaxAcquisitions
    /\ tm' = [tm EXCEPT !.acquisitions[name] = @ + 1]
    /\ calls' = [calls EXCEPT ![c] = [pc |-> "acquiring", name |-> name,
                                      ticket |-> tm.acquisitions[name] + 1,
                                      fetched |-> TRUE, result |-> 0, error |-> "none",
                                      op |-> "get_token"]]
    /\ UNCHANGED <<jobVars, fx, sg, fan>>

\* lines 63-64: ValueError
tk_invalid(c, name) ==
    /\ calls[c].pc = "idle"
    /\ ~Cached(name)
    /\ name \notin TokenNames
    /\ calls' = [calls EXCEPT ![c] = [pc |-> "raised", name |-> name, ticket |-> 0,
                                      fetched |-> FALSE, result |-> 0,
                                      error |-> "ValueError", op |-> "get_token"]]
    /\ UNCHANGED tm
    /\ UNCHANGED <<jobVars, fx, sg, fan>>

\* lines 62 and 65: the acquisition answers, with the value or without it;
\* the result is stored and returned
tk_acquired(c, present) ==
    /\ calls[c].pc = "acquiring"
    /\ LET name == calls[c].name
           value == IF present THEN calls[c].ticket ELSE 0
           stored == [n \in DOMAIN tm.tokens \cup {name} |->
                        IF n = name THEN value ELSE tm.tokens[n]]
       IN /\ tm' = [tm EXCEPT !.tokens = stored]
          /\ calls' = [calls EXCEPT ![c].pc = "returned", ![c].result = stored[name]]
    /\ UNCHANGED <<jobVars, fx, sg, fan>>

\* an acquisition that stores "" for the name when it raises
tk_acquire_raise_stores(c) ==
    /\ calls[c].pc = "acquiring"
    /\ calls' = [calls EXCEPT ![c].pc = "raised", ![c].error = "httpx"]
    /\ tm' = [tm EXCEPT !.tokens = [n \in DOMAIN @ \cup {calls[c].name} |->
                                       IF n = calls[c].name THEN 0 ELSE @[n]]]
    /\ UNCHANGED <<jobVars, fx, sg, fan>>

\* the acquisition raises (no network, no JSON in the answer): the error
\* leaves get_token at line 62, nothing is stored
tk_acquire_raise(c) ==
    /\ calls[c].pc = "acquiring"
    /\ calls' = [calls EXCEPT ![c].pc = "raised", ![c].error = "httpx"]
    /\ UNCHANGED tm
    /\ UNCHANGED <<jobVars, fx, sg, fan>>

\* a caller asks the TokenManager to reset(): the class (lines 39-98)
\* defines no such method, the attribute lookup raises AttributeError and
\* the tokens stay as they are
tk_reset(c) ==
    /\ calls[c].pc = "idle"
    /\ calls' = [calls EXCEPT ![c] = [pc |-> "raised", name |-> "none", ticket |-> 0,
                                      fetched |-> FALSE, result |-> 0,
                                      error |-> "AttributeError", op |-> "reset"]]
    /\ UNCHANGED tm
    /\ UNCHANGED <<jobVars, fx, sg, fan>>

\* the caller goes on
tk_done(c) ==
    /\ calls[c].pc \in {"returned", "raised"}
    /\ calls' = [calls EXCEPT ![c] = IdleCall]
    /\ UNCHANGED tm
    /\ UNCHANGED <<jobVars, fx, sg, fan>>

TokenNext ==
    \/ \E c \in Callers, n \in AskedNames : tk_hit(c, n)
    \/ \E c \in Callers, n \in AskedNames : tk_miss(c, n)
    \/ \E c \in Callers, n \in AskedNames : tk_invalid(c, n)
    \/ \E c \in Callers, present \in BOOLEAN : tk_acquired(c, present)
    \/ \E c \in Callers : tk_acquire_raise(c)
    \/ \E c \in Callers : tk_reset(c)
    \/ \E c \in Callers : tk_done(c)

(***************************************************************************)
(* get_tiktok_headers inside the crawl of one job: every call of           *)
(* fetch_post_comment and fetch_post_comment_reply asks the crawler's      *)
(* TokenManager for the three tokens before it sends its request.          *)
(*                                                                         *)
(* calls[c] is the get_token call of the coroutine in slot c: the page     *)
(* loop is in slot "a"; while the page loop waits for a batch, the reply   *)
(* crawl of comment 1 is in slot "a" and that of comment 2 in slot "b".    *)
(***************************************************************************)
\* lines 56-58 of web_crawler.py: the order the tokens are asked in
HeaderTokens == <<"msToken", "ttwid", "odin_tt">>

SlotOf(cid) == IF cid = 1 THEN "a" ELSE "b"

\* the coroutine in slot c has called fetch_post_comment or
\* fetch_post_comment_reply and the call has not returned
Pending(c) ==
    \E t \in OneJob :
        \/ c = "a" /\ pc[t] = "fc_wait"
        \/ /\ pc[t] = "fr_gather"
           /\ \E cid \in DOMAIN crawls[t] : SlotOf(cid) = c /\ crawls[t][cid].st = "wait"

\* get_token(name) of utils.py, lines 54-65, up to its first await: the
\* stored value is returned, or the acquisition starts
AskToken(c, name) ==
    IF Cached(name)
    THEN /\ calls' = [calls EXCEPT ![c] = [pc |-> "returned", name |-> name, ticket |-> 0,
                                           fetched |-> FALSE, result |-> tm.tokens[name],
                                           error |-> "none", op |-> "get_token"]]
         /\ UNCHANGED tm
    ELSE /\ tm.acquisitions[name] < MaxAcquisitions
         /\ tm' = [tm EXCEPT !.acquisitions[name] = @ + 1]
         /\ calls' = [calls EXCEPT ![c] = [pc |-> "acquiring", name |-> name,
                                           ticket |-> tm.acquisitions[name] + 1,
                                           fetched |-> TRUE, result |-> 0,
                                           error |-> "none", op |-> "get_token"]]

\* lines 53-56: get_tiktok_headers is entered and asks for msToken
hd_get_tiktok_headers(c) ==
    /\ Pending(c)
    /\ calls[c].pc = "idle"
    /\ AskToken(c, HeaderTokens[1])
    /\ UNCHANGED <<jobVars, fx, sg, fan>>

\* line 55: get_cookies raises, no token is asked for
hd_cookies_raise(c) ==
    /\ Pending(c)
    /\ calls[c].pc = "idle"
    /\ calls' = [calls EXCEPT ![c] = [IdleCall EXCEPT !.pc = "raised", !.error = "httpx",
                                                      !.op = "get_cookies"]]
    /\ UNCHANGED tm
    /\ UNCHANGED <<jobVars, fx, sg, fan>>

\* lines 57-58: the token asked for was returned, the next one is asked for
hd_next(c) ==
    /\ calls[c].pc = "returned"
    /\ \E k \in 1..2 :
          /\ calls[c].name = HeaderTokens[k]
          /\ AskToken(c, HeaderTokens[k + 1])
    /\ UNCHANGED <<jobVars, fx, sg, fan>>

\* a request that is sent without the headers
HeadersUnchecked(c) == TRUE

\* line 63: get_tiktok_headers has returned the headers with the three
\* tokens
HeadersDone(c) == calls[c].pc = "returned" /\ calls[c].name = HeaderTokens[3]

\* get_tiktok_headers was left by an error, which leaves the fetch too
HeadersRaised(c) == calls[c].pc = "raised"

\* fetch_post_comment or fetch_post_comment_reply has returned or raised
hd_leave(c) ==
    /\ ~Pending(c)
    /\ calls[c].pc \in {"returned", "raised"}
    /\ calls' = [calls EXCEPT ![c] = IdleCall]
    /\ UNCHANGED tm
    /\ UNCHANGED <<jobVars, fx, sg, fan>>

\* no fetch of the crawler is under way
NoFetch == \A c \in Callers : calls[c].pc = "idle"

HeadersNext ==
    \/ \E t \in OneJob, b \in BOOLEAN : start_crawl(t, b)
    \/ \E t \in OneJob : cancel_crawl(t)
    \/ \E t \in OneJob : cv_start(t)
    \/ \E t \in OneJob : NoFetch /\ fc_request(t)
    \/ \E t \in OneJob : fc_exit(t)
    \/ \E c \in Callers : hd_get_tiktok_headers(c)
    \/ \E c \in Callers : hd_cookies_raise(c)
    \/ \E c \in Callers : hd_next(c)
    \/ \E c \in Callers, present \in BOOLEAN : tk_acquired(c, present)
    \/ \E c \in Callers : tk_acquire_raise(c)
    \/ \E c \in Callers : hd_leave(c)
    \/ \E t \in OneJob, p \in LivePages, more \in BOOLEAN :
          HeadersDone("a") /\ fc_response(t, p[1], p[2], more)
    \/ \E t \in OneJob : (HeadersDone("a") \/ HeadersRaised("a")) /\ fc_fail(t)
    \/ \E t \in OneJob : fc_wake(t)
    \/ \E t \in OneJob : cv_after_fetch(t)
    \/ \E t \in OneJob : cv_replies_yes(t)
    \/ \E t \in OneJob : cv_replies_no(t)
    \/ \E t \in OneJob : NoFetch /\ fr_launch(t)
    \/ \E t \in OneJob : fr_exit(t)
    \/ \E t \in OneJob : \E c \in DOMAIN crawls[t] :
          HeadersDone(SlotOf(c)) /\ reply_response(t, c, [n |-> 1, more |-> FALSE])
    \/ \E t \in OneJob : \E c \in DOMAIN crawls[t] :
          HeadersDone(SlotOf(c)) /\ reply_response_again(t, c)
    \/ \E t \in OneJob : \E c \in DOMAIN crawls[t] :
          calls[SlotOf(c)].pc = "idle" /\ reply_wake(t, c)
    \/ \E t \in OneJob : \E c \in DOMAIN crawls[t] :
          (HeadersDone(SlotOf(c)) \/ HeadersRaised(SlotOf(c))) /\ reply_fail(t, c)
    \/ \E t \in OneJob : NoFetch /\ fr_gathered(t)
    \/ \E t \in OneJob : cv_sum(t)
    \/ \E t \in OneJob : cv_format(t)
    \/ \E t \in OneJob : cv_save(t)
    \/ \E t \in OneJob : cv_complete(t)

(***************************************************************************)
(* BogusManager: the signing of a request URL.                             *)
(*                                                                         *)
(* sg.log is the set of model_2_endpoint calls made, each with its inputs  *)
(* and the URL it returned, sg.made their number; sg.gb is one             *)
(* get_final_url call of the instance class (lines 101-136).  A string is  *)
(* the sequence of its pieces.                                             *)
(***************************************************************************)
\* model_2_endpoint calls the model follows
MaxSignCalls == 3

\* base endpoints, without and with a query
Endpoints == {<<"/api/comment/list/">>, <<"/api/comment/list/", "?", "aid=1988">>}

\* parameter dicts, as the sequence of their items in insertion order
ParamDicts ==
    {<<>>, <<<<"cursor", "0">>>>,
     <<<<"aweme_id", "7">>, <<"cursor", "0">>>>,
     <<<<"cursor", "0">>, <<"aweme_id", "7">>>>}

UserAgents == {"ua1", "ua2"}

\* "&".join of line 198, over the items k=v
RECURSIVE JoinItems(_)
JoinItems(params) ==
    IF params = <<>> THEN <<>>
    ELSE LET item == <<params[1][1], "=", params[1][2]>>
         IN IF Len(params) = 1 THEN item
            ELSE item \o <<"&">> \o JoinItems(Tail(params))

\* XB(user_agent).getXBogus(param_str) of a signer that computes the
\* signature from its two inputs: <<signed string, signature, user agent>>
getXBogus(user_agent, param_str) ==
    <<param_str \o <<"&X-Bogus=", <<"xb", user_agent, param_str>>>>,
      <<"xb", user_agent, param_str>>, user_agent>>

\* a signature that counts the calls made before
model_2_endpoint_counting(base_endpoint, params, user_agent) ==
    LET param_str == JoinItems(params)
        separator == IF \E k \in 1..Len(base_endpoint) : base_endpoint[k] = "?"
                     THEN "&" ELSE "?"
    IN base_endpoint \o <<separator>> \o param_str \o <<"&X-Bogus=", sg.made>>

\* lines 193-209 (xb_value[1] is the second element)
model_2_endpoint(base_endpoint, params, user_agent) ==
    LET param_str == JoinItems(params)
        xb_value == getXBogus(user_agent, param_str)
        separator == IF \E k \in 1..Len(base_endpoint) : base_endpoint[k] = "?"
                     THEN "&" ELSE "?"
    IN base_endpoint \o <<separator>> \o param_str \o <<"&X-Bogus=", xb_value[2]>>

\* line 135 of get_final_url, for the pair gen_bogus hands it: the pieces are
\* joined with "&" whatever the url holds
final_url(url, xbogus, params) ==
    IF params = <<>> THEN url \o <<"&X-Bogus=", xbogus>>
    ELSE url \o <<"&">> \o params \o <<"&X-Bogus=", xbogus>>

\* the pairs a signing service hands back: the signature, and the rewritten
\* parameter string or ""
BogusPairs == {<<"xb1", <<>>>>, <<"xb1", <<"cursor", "=", "0">>>>}

NoSigning == [pc |-> "idle", attempts |-> 0, answer |-> "none", error |-> "none"]

InitSign == sg = [log |-> {}, made |-> 0, gb |-> NoSigning, built |-> {}]

\* a caller signs an endpoint
sg_model_2_endpoint(base_endpoint, params, user_agent) ==
    /\ sg.made < MaxSignCalls
    /\ sg' = [sg EXCEPT !.made = @ + 1,
                        !.log = @ \cup {[base_endpoint |-> base_endpoint,
                                         params |-> params,
                                         user_agent |-> user_agent,
                                         url |-> model_2_endpoint(base_endpoint, params,
                                                                  user_agent)]}]
    /\ UNCHANGED <<jobVars, fx, tm, calls, fan>>

\* get_final_url calls gen_bogus (line 134), whose first attempt posts the
\* URL to the signing service (lines 123-128)
gb_call ==
    /\ sg.gb.pc = "idle"
    /\ sg' = [sg EXCEPT !.gb = [NoSigning EXCEPT !.pc = "posting", !.attempts = 1]]
    /\ UNCHANGED <<jobVars, fx, tm, calls, fan>>

\* the post or response.json() raises: retry_if_result (line 119) asks for
\* no retry after an exception, the exception leaves gen_bogus and
\* get_final_url
gb_request_error ==
    /\ sg.gb.pc = "posting"
    /\ sg' = [sg EXCEPT !.gb.pc = "raised", !.gb.error = "httpx"]
    /\ UNCHANGED <<jobVars, fx, tm, calls, fan>>

\* the service answers, with a signature or without one, and line 130
\* returns the pair; the retry test of line 119 is then called with that
\* result as its only argument, and _is_fail (line 107) takes two: the call
\* raises TypeError, which leaves gen_bogus and get_final_url
gb_answered(answer) ==
    /\ sg.gb.pc = "posting"
    /\ sg' = [sg EXCEPT !.gb.pc = "raised", !.gb.answer = answer,
                        !.gb.error = "TypeError"]
    /\ UNCHANGED <<jobVars, fx, tm, calls, fan>>

\* the caller of get_final_url goes on: fetch_post_comment is left by the
\* error (web_crawler.py line 75), no request was built
gb_done ==
    /\ sg.gb.pc = "raised"
    /\ sg' = [sg EXCEPT !.gb = NoSigning]
    /\ UNCHANGED <<jobVars, fx, tm, calls, fan>>

\* the statement of line 135 on its own, applied to a url and a pair:
\* sg.built holds the last URL it built, with its inputs
sg_final_url(url, pair) ==
    /\ sg' = [sg EXCEPT !.built = {[url |-> url, xbogus |-> pair[1],
                                    params |-> pair[2],
                                    final_url |-> final_url(url, pair[1], pair[2])]}]
    /\ sg'.built # sg.built
    /\ UNCHANGED <<jobVars, fx, tm, calls, fan>>

SignNext ==
    \/ \E b \in Endpoints, p \in ParamDicts, ua \in UserAgents :
          sg_model_2_endpoint(b, p, ua)
    \/ \E b \in Endpoints, pair \in BogusPairs : sg_final_url(b, pair)
    \/ gb_call
    \/ gb_request_error
    \/ \E a \in {"signature", "no signature"} : gb_answered(a)
    \/ gb_done

(***************************************************************************)
(* The reply fan-out of several jobs at once.                              *)
(*                                                                         *)
(* Every job of start_crawl runs crawl_video_comments with a crawler of    *)
(* its own (main.py line 410), whose __init__ builds a semaphore of        *)
(* max_tasks permits (base_crawler.py line 34).  fan[j] is the job's       *)
(* number of reply crawls in flight and the permits its semaphore has      *)
(* left.                                                                   *)
(***************************************************************************)
\* jobs submitted at the same time
MaxJobs == 7

\* the default of BaseCrawler.__init__
max_tasks == 50

FanJobs == 1..MaxJobs

NoFan == [st |-> "none", inflight |-> 0, permits |-> 0]

InitFanout == fan = [j \in FanJobs |-> NoFan]

\* start_crawl queues the job and its execution builds the crawler
fan_start(j) ==
    /\ fan[j].st = "none"
    /\ fan' = [fan EXCEPT ![j] = [st |-> "running", inflight |-> 0, permits |-> max_tasks]]
    /\ UNCHANGED <<jobVars, fx, tm, calls, sg>>

\* main.py lines 523-533: a batch of n reply crawls is launched; no line
\* of the program acquires the semaphore
fan_launch(j, n) ==
    /\ fan[j].st = "running"
    /\ fan[j].inflight = 0
    /\ fan' = [fan EXCEPT ![j].inflight = n]
    /\ UNCHANGED <<jobVars, fx, tm, calls, sg>>

\* the gather of line 533 returns
fan_gathered(j) ==
    /\ fan[j].st = "running"
    /\ fan[j].inflight > 0
    /\ fan' = [fan EXCEPT ![j].inflight = 0]
    /\ UNCHANGED <<jobVars, fx, tm, calls, sg>>

\* the execution ends
fan_end(j) ==
    /\ fan[j].st = "running"
    /\ fan[j].inflight = 0
    /\ fan' = [fan EXCEPT ![j] = NoFan]
    /\ UNCHANGED <<jobVars, fx, tm, calls, sg>>

FanoutNext ==
    \/ \E j \in FanJobs : fan_start(j)
    \/ \E j \in FanJobs, n \in {1, batch_size} : fan_launch(j, n)
    \/ \E j \in FanJobs : fan_gathered(j)
    \/ \E j \in FanJobs : fan_end(j)

Init == InitJobs /\ fx = NoCall /\ InitTokens /\ InitSign /\ InitFanout

Next == JobNext

Spec == Init /\ [][Next]_vars

\* the job table under every handler
SpecTable == Init /\ [][TableNext]_vars

\* one job through a crawl of many pages
SpecLong == Init /\ [][LongNext]_vars

\* one job whose every fetch asks for the tokens
SpecHeaders == Init /\ [][HeadersNext]_vars

\* one job, scheduled fairly
SpecLive == Init /\ [][LiveNext]_vars /\ Fairness

\* the reply fan-outs of the jobs that run at the same time
SpecFanout == Init /\ [][FanoutNext]_vars

\* the signing of request URLs
SpecSign == Init /\ [][SignNext]_vars

\* the retry loop of one crawler, called again and again
SpecFetch == Init /\ [][FetchNext]_vars

\* the token cache of one crawler and the coroutines that ask it
SpecTokens == Init /\ [][TokenNext]_vars

(***************************************************************************)
(* Properties of the job table and its background executions.              *)
(***************************************************************************)
FcPoints == {"fc_loop", "fc_wait", "fc_sleep"}

\* the comment ids of a written result, in order
ArtifactIds(a) == [k \in 1..Len(a.comments) |-> a.comments[k].comment_id]

\* the set of the elements of a sequence
Range(s) == { s[k] : k \in 1..Len(s) }

\* C1: once a job's status is completed, failed or cancelled, no step of
\* any operation changes it.
C1_TerminalStatusKept ==
    [][\A t \in DOMAIN tasks :
          tasks[t].status \in Terminal => tasks'[t].status = tasks[t].status]_vars

\* C2: every write to a job's progress writes a value greater than or
\* equal to the value it replaces.
C2_ProgressNeverDecreases ==
    [][\A t \in DOMAIN tasks : FLeq(tasks[t].progress, tasks'[t].progress)]_vars

\* C3: a job's progress is 100 if and only if its status is completed.
C3_HundredIffCompleted ==
    \A t \in DOMAIN tasks :
        (tasks[t].progress = Whole(100)) <=> (tasks[t].status = "completed")

C3_Witness ==
    \E t \in DOMAIN tasks :
        /\ tasks[t].status = "completed"
        /\ tasks[t].progress = Whole(100)
        /\ remote[t].page_requests > 0

\* C4: while a job stands cancelled inside the pagination of
\* fetch_comments_with_progress no page request is started and the status
\* stays cancelled until the loop is left (the request in flight may still
\* be answered); and a result that is written holds, in order, every
\* comment the remote served to the crawl.
C4_CancelStopsPagination ==
    /\ [][\A t \in DOMAIN tasks :
             (tasks[t].status = "cancelled" /\ pc[t] \in FcPoints)
                 => /\ remote'[t].page_requests = remote[t].page_requests
                    /\ pc'[t] \in FcPoints => tasks'[t].status = "cancelled"]_vars
    /\ [](\A t \in DOMAIN tasks :
             /\ pc[t] \notin {"idle", "queued"} => fc[t].all_comments = remote[t].served
             /\ artifact[t] # <<>> => ArtifactIds(artifact[t][1]) = remote[t].served)

\* a job cancelled during its pagination (the loop was left with has_more
\* true and no failed page, and no reply batch was launched although
\* replies were asked for) whose result is written with the 20 comments
\* accumulated
C4_Witness ==
    \E t \in DOMAIN tasks :
        /\ tasks[t].status = "cancelled"
        /\ pc[t] = "cv_complete"
        /\ artifact[t] # <<>>
        /\ fc[t].has_more
        /\ remote[t].page_requests = fc[t].page
        /\ tasks[t].include_replies
        /\ remote[t].reply_requests = 0
        /\ Len(fc[t].all_comments) = 20

\* C6: every parent comment of a batch that was executed is a key of the
\* mapping or a parent whose reply crawl failed; every key whose crawl did
\* not fail is recorded with the number of replies the remote served to
\* its crawl; and when fetch_replies_with_progress returns for a job that
\* is still running, every batch was executed, whatever failed in them.
C6_BatchesTolerateFailures ==
    \A t \in DOMAIN tasks :
        LET valid == fr[t].valid_comments
            counts == fr[t].reply_counts
        IN /\ \A k \in 1..Len(valid) :
                 k <= fr[t].i => \/ valid[k] \in DOMAIN counts
                                 \/ valid[k] \in remote[t].refused
           /\ \A c \in DOMAIN counts :
                 c \notin remote[t].refused => counts[c] = remote[t].replied[c]
           /\ (pc[t] = "cv_sum" /\ tasks[t].status = "running")
                 => /\ fr[t].i >= Len(valid)
                    /\ Range(valid) \subseteq DOMAIN counts \cup remote[t].refused

\* ten parents, the reply crawls of two of the first batch failed, the
\* second batch was executed and the fetcher has returned
C6_Witness ==
    \E t \in DOMAIN tasks :
        /\ pc[t] = "cv_sum"
        /\ tasks[t].status = "running"
        /\ Len(fr[t].valid_comments) = 10
        /\ remote[t].refused = {1, 2}
        /\ \A c \in 3..10 : c \in DOMAIN fr[t].reply_counts /\ fr[t].reply_counts[c] = 1

\* C7: a pagination stops asking for pages after the first answer with
\* has_more = false, and not before: the loop of
\* fetch_comments_with_progress is left only when has_more is false, the
\* job is no longer running or a page failed, whatever was accumulated;
\* a reply crawl that has not failed waits for a page exactly while
\* has_more is true and has returned exactly when it is false.
C7_StopsExactlyAtHasMoreFalse ==
    /\ [][\A t \in DOMAIN tasks :
             (pc[t] \in FcPoints /\ ~fc[t].has_more)
                 => remote'[t].page_requests = remote[t].page_requests]_vars
    /\ [](\A t \in DOMAIN tasks :
             /\ pc[t] = "cv_after_fetch"
                   => \/ ~fc[t].has_more
                      \/ tasks[t].status # "running"
                      \/ remote[t].page_requests = fc[t].page + 1
             /\ pc[t] = "fc_sleep" => remote[t].page_requests = fc[t].page
             /\ \A c \in DOMAIN crawls[t] :
                   c \notin remote[t].refused
                       => /\ crawls[t][c].st = "done" <=> ~crawls[t][c].has_more
                          /\ crawls[t][c].st = "wait" <=> crawls[t][c].has_more)

\* the loop is left on has_more = false, by a running job, after two pages
\* and 30 accumulated comments
C7_Witness ==
    \E t \in DOMAIN tasks :
        /\ pc[t] = "cv_after_fetch"
        /\ ~fc[t].has_more
        /\ tasks[t].status = "running"
        /\ fc[t].page = 2
        /\ remote[t].page_requests = 2
        /\ Len(fc[t].all_comments) = 30

(***************************************************************************)
(* Properties of the retry loop of get_fetch_data and post_fetch_data.     *)
(***************************************************************************)
Looping == fx.method \in {"get", "post"}

Ended == fx.pc \in {"returned", "raised"}

\* the attempts of the call that were answered with a blank body
EmptyAttempts == { k \in 1..Len(fx.trace) : fx.trace[k] = "empty" }

C9_EmptyBodyBackoff ==
    Looping =>
        LET n == Len(fx.trace)
            R == fx.max_retries
        IN /\ fx.slept = Cardinality({ k \in EmptyAttempts : k < R })
           /\ fx.pc = "sleep" => n < R /\ fx.trace[n] = "empty" /\ fx.sent = n
           /\ (n >= 1 /\ n < R /\ fx.trace[n] = "empty")
                 => \/ fx.pc = "sleep" /\ fx.sent = n
                    \/ fx.pc = "inflight" /\ fx.sent = n + 1
           /\ (n = R /\ fx.trace[n] = "empty") => Ended /\ fx.sent = R
           /\ (Ended /\ EmptyAttempts = 1..n) => fx.sent = R /\ fx.slept = R - 1

C9_Witness ==
    /\ fx.method = "post"
    /\ fx.max_retries = 3
    /\ fx.trace = <<"empty", "empty", "empty">>
    /\ Ended
    /\ fx.sent = 3
    /\ fx.slept = 2

\* C10: when the last attempt of a get or post call is answered with a
\* blank body, the caller receives a RetryExhausted error, not None.
C10_ExhaustionIsSignalled ==
    (/\ Looping
     /\ Len(fx.trace) = fx.max_retries
     /\ fx.trace[Len(fx.trace)] = "empty")
        => fx.pc = "raised" /\ fx.result = "APIRetryExhaustedError"

(***************************************************************************)
(* Properties of the token cache.                                          *)
(***************************************************************************)
\* C8: a get_token call for a name that is stored returns the stored value
\* and starts no network acquisition, and a stored name stays stored: after
\* the call that acquired and stored it, no sequential call for the name
\* acquires again.
C8_StoredTokenIsReused ==
    [][/\ \A c \in Callers :
             (/\ calls[c].pc = "idle"
              /\ calls'[c].pc # "idle"
              /\ calls'[c].name \in DOMAIN tm.tokens)
                 => /\ tm'.acquisitions = tm.acquisitions
                    /\ calls'[c].pc = "returned"
                    /\ ~calls'[c].fetched
                    /\ calls'[c].result = tm.tokens[calls'[c].name]
       /\ DOMAIN tm.tokens \subseteq DOMAIN tm'.tokens]_vars

\* a second call for ttwid has returned the value the first one acquired,
\* and one acquisition was made
C8_Witness ==
    \E c \in Callers :
        /\ calls[c].pc = "returned"
        /\ calls[c].name = "ttwid"
        /\ ~calls[c].fetched
        /\ calls[c].result = 1
        /\ tm.tokens["ttwid"] = 1
        /\ tm.acquisitions["ttwid"] = 1

(***************************************************************************)
(* Properties of the status history, the handlers and the error paths.     *)
(***************************************************************************)
\* C11: a job enters the table pending, and every change of its status is
\* pending -> running, running -> completed, running -> failed,
\* running -> cancelled or (a job cancelled before it ran) pending ->
\* cancelled: running is entered only from pending and nothing follows a
\* terminal status.
C11_StatusHistory ==
    [][\A t \in DOMAIN tasks' :
          IF t \in DOMAIN tasks
          THEN tasks'[t].status # tasks[t].status
                   => <<tasks[t].status, tasks'[t].status>> \in
                          {<<"pending", "running">>, <<"pending", "cancelled">>,
                           <<"running", "completed">>, <<"running", "failed">>,
                           <<"running", "cancelled">>}
          ELSE tasks'[t].status = "pending"]_vars

\* C12: no error leaves crawl_video_comments: an execution ends by
\* returning, and one that met an error has set its job to failed with the
\* error stored.
C12_ErrorsNeverEscape ==
    \A t \in TaskIds :
        /\ pc[t] # "escaped"
        /\ (pc[t] = "done" /\ t \in DOMAIN tasks /\ tasks[t].error # FALSE)
              => tasks[t].status = "failed"

\* a page of the crawl failed: the request that was sent was not answered
\* with a page
PageFailed(t) ==
    /\ pc[t] \notin {"idle", "queued"} \cup FcPoints
    /\ remote[t].page_requests = fc[t].page + 1

\* C13: the error handler of crawl_video_comments is entered only when the
\* crawler cannot be built or the result cannot be written, never from a
\* failed page or a failed reply crawl; an execution that returns without
\* it leaves the job completed; and the result written holds every comment
\* the remote served and, for every parent, the replies served to its
\* crawl, those served before a failure included.
C13_FetchFailuresNeverFailTheJob ==
    /\ [][\A t \in DOMAIN tasks :
             (pc'[t] = "cv_except" /\ pc[t] # "cv_except")
                 => pc[t] \in {"queued", "cv_save"}]_vars
    /\ [](\A t \in DOMAIN tasks :
             /\ tasks[t].status = "failed" => tasks[t].error # FALSE
             /\ (pc[t] = "done" /\ tasks[t].error = FALSE)
                   => tasks[t].status = "completed"
             /\ artifact[t] # <<>>
                   => LET a == artifact[t][1]
                      IN /\ ArtifactIds(a) = remote[t].served
                         /\ \A k \in 1..Len(a.comments) :
                               a.comments[k].reply_comment_total =
                                   IF a.comments[k].comment_id \in DOMAIN remote[t].replied
                                   THEN remote[t].replied[a.comments[k].comment_id]
                                   ELSE 0)

\* a job is completed after its second page failed and the reply crawl of
\* its first comment failed on its second page: the result holds the ten
\* comments of the first page and the one reply served for the first
C13_Witness ==
    \E t \in DOMAIN tasks :
        /\ pc[t] = "done"
        /\ tasks[t].status = "completed"
        /\ PageFailed(t)
        /\ fc[t].page = 1
        /\ 1 \in remote[t].refused
        /\ artifact[t] # <<>>
        /\ Len(artifact[t][1].comments) = 10
        /\ artifact[t][1].comments[1].reply_comment_total = 1
        /\ tasks[t].comments = 10

\* C14: a cancel with the id of a pending or running job changes its status
\* to cancelled and nothing else; with the id of a terminal job it changes
\* nothing; with an unknown id it answers not-found and changes nothing; a
\* cancel without id changes exactly the pending and running jobs, to
\* cancelled, and reports how many it changed.  No cancel adds or removes a
\* job or touches an execution.
C14_CancelFrame ==
    [][/\ \A t \in TaskIds :
             cancel_crawl(t)
                 => /\ cancel_crawl_response(t) = "Task cancelled"
                    /\ DOMAIN tasks' = DOMAIN tasks
                    /\ \A u \in DOMAIN tasks \ {t} : tasks'[u] = tasks[u]
                    /\ tasks[t].status \in {"pending", "running"}
                          => tasks'[t] = [tasks[t] EXCEPT !.status = "cancelled"]
                    /\ tasks[t].status \in Terminal => tasks'[t] = tasks[t]
                    /\ pc' = pc
       /\ \A t \in TaskIds :
             cancel_crawl_not_found(t)
                 => /\ cancel_crawl_response(t) = "Task not found"
                    /\ tasks' = tasks
                    /\ pc' = pc
       /\ cancel_all
             => /\ DOMAIN tasks' = DOMAIN tasks
                /\ \A u \in DOMAIN tasks :
                      /\ tasks[u].status \in {"pending", "running"}
                            => tasks'[u] = [tasks[u] EXCEPT !.status = "cancelled"]
                      /\ tasks[u].status \in Terminal => tasks'[u] = tasks[u]
                /\ cancelled_count =
                       Cardinality({ u \in DOMAIN tasks : tasks'[u] # tasks[u] })
                /\ pc' = pc]_vars

\* job t1 was cancelled during its pagination while the older job t2 stood
\* pending, and t2 is pending still
C14_Witness ==
    /\ DOMAIN tasks = {"t1", "t2"}
    /\ tasks["t1"].status = "cancelled"
    /\ pc["t1"] = "fc_wait"
    /\ tasks["t2"].status = "pending"
    /\ tasks["t2"].created_at < tasks["t1"].created_at

\* C15: the answer to a poll holds an artifact reference if and only if
\* the job is completed, and then the result was written.
C15_ArtifactIffCompleted ==
    \A t \in DOMAIN tasks :
        /\ (TaskStatus(tasks[t]).download_url # FALSE)
               <=> (TaskStatus(tasks[t]).status = "completed")
        /\ tasks[t].status = "completed" => artifact[t] # <<>>

\* a job that was cancelled during its pagination and is completed, with
\* its reference and its result
C15_Witness ==
    \E t \in DOMAIN tasks :
        /\ TaskStatus(tasks[t]).status = "completed"
        /\ TaskStatus(tasks[t]).download_url = TRUE
        /\ artifact[t] # <<>>
        /\ fc[t].has_more
        /\ remote[t].page_requests = fc[t].page

\* C16: a cleanup removes the jobs that are terminal and older than 3600
\* seconds, all of them and no other; the jobs that stay are unchanged, the
\* count reported is the number removed, no execution is touched.
C16_CleanupFrame ==
    [][cleanup_tasks
          => LET old == { u \in DOMAIN tasks :
                            /\ tasks[u].status \in {"completed", "failed", "cancelled"}
                            /\ now - tasks[u].created_at > 3600 }
             IN /\ DOMAIN tasks' = DOMAIN tasks \ old
                /\ \A u \in DOMAIN tasks' : tasks'[u] = tasks[u]
                /\ removed_count = Cardinality(DOMAIN tasks \ DOMAIN tasks')
                /\ pc' = pc]_vars

\* job t1 is finished and removed; job t2, as old, is running and in the
\* table
C16_Witness ==
    /\ DOMAIN tasks = {"t2"}
    /\ pc["t1"] = "done"
    /\ tasks["t2"].status = "running"
    /\ now - tasks["t2"].created_at > 3600

\* the background execution of job t is under way
Active(t) == pc[t] \notin {"idle", "done", "escaped"}

\* C17: a step that changes the record of a job whose background execution
\* is under way is a step of that execution.
C17_SingleWriter ==
    [][\A t \in DOMAIN tasks :
          (Active(t) /\ t \in DOMAIN tasks' /\ tasks'[t] # tasks[t])
              => pc'[t] # pc[t]]_vars

(***************************************************************************)
(* Properties of the classification of status codes.                       *)
(***************************************************************************)
\* C18: a call whose last response has a body and a status code other than
\* 200 and 302 has ended with the error class of that code (404 NotFound,
\* 503 Unavailable, 408 Timeout, 401 Unauthorized, 429 RateLimit, any
\* other ResponseError) carrying the code, whatever the method and the
\* attempt.
C18_StatusDecidesClass ==
    (/\ fx.trace # <<>>
     /\ fx.trace[Len(fx.trace)] = "body"
     /\ fx.status_code \notin {200, 302})
        => /\ fx.pc = "raised"
           /\ fx.detail = fx.status_code
           /\ fx.result =
                  CASE fx.status_code = 404 -> "APINotFoundError"
                    [] fx.status_code = 503 -> "APIUnavailableError"
                    [] fx.status_code = 408 -> "APITimeoutError"
                    [] fx.status_code = 401 -> "APIUnauthorizedError"
                    [] fx.status_code = 429 -> "APIRateLimitError"
                    [] OTHER -> "APIResponseError"

\* a post call whose second attempt is answered 429
C18_Witness ==
    /\ fx.method = "post"
    /\ fx.trace = <<"empty", "body">>
    /\ fx.status_code = 429
    /\ fx.pc = "raised"
    /\ fx.result = "APIRateLimitError"
    /\ fx.detail = 429

(***************************************************************************)
(* Properties of get_token for unknown names and absent values.            *)
(***************************************************************************)
\* C19: every get_token call for a name other than msToken, ttwid and
\* odin_tt ends at once with ValueError, starts no acquisition and leaves
\* the tokens as they are; no such name is ever stored.
C19_UnknownNameIsRefused ==
    /\ [][\A c \in Callers :
             (/\ calls[c].pc = "idle"
              /\ calls'[c].op = "get_token"
              /\ calls'[c].name \notin {"msToken", "ttwid", "odin_tt"})
                 => /\ calls'[c].pc = "raised"
                    /\ calls'[c].error = "ValueError"
                    /\ ~calls'[c].fetched
                    /\ tm' = tm]_vars
    /\ [](DOMAIN tm.tokens \subseteq {"msToken", "ttwid", "odin_tt"})

\* both callers were refused the same unknown name, with the three tokens
\* stored
C19_Witness ==
    /\ \A c \in Callers :
          /\ calls[c].pc = "raised"
          /\ calls[c].name = "s_v_web_id"
          /\ calls[c].error = "ValueError"
    /\ DOMAIN tm.tokens = {"msToken", "ttwid", "odin_tt"}

\* C20: when the answer to an acquisition of ttwid or odin_tt does not hold
\* the value, the call fails and nothing is stored: a stored ttwid or
\* odin_tt is a value that was acquired, and no call returns without one.
C20_AbsentValueFailsHard ==
    /\ \A n \in {"ttwid", "odin_tt"} :
          n \in DOMAIN tm.tokens => tm.tokens[n] # 0
    /\ \A c \in Callers :
          (calls[c].pc = "returned" /\ calls[c].name \in {"ttwid", "odin_tt"})
              => calls[c].result # 0

\* C21: a reset() of the token cache leaves the token set empty.
C21_ResetEmptiesTheCache ==
    [][\A c \in Callers :
          (calls[c].pc = "idle" /\ calls'[c].op = "reset")
              => tm'.tokens = NoTokens]_vars

\* C39: an acquisition that raises stores nothing and leaves the other
\* entries as they are, and a get_token that then asks for the name starts
\* the acquisition again; a get_token that asks for a stored name returns
\* the stored value and leaves the tokens as they are, and no step removes
\* an entry.
C39_FailedAcquisitionStoresNothing ==
    [][/\ \A c \in Callers :
             (calls[c].pc = "acquiring" /\ calls'[c].pc = "raised")
                 => /\ tm'.tokens = tm.tokens
                    /\ calls[c].name \notin DOMAIN tm.tokens
                          => calls[c].name \notin DOMAIN tm'.tokens
       /\ \A c \in Callers :
             (/\ calls[c].pc = "idle"
              /\ calls'[c].op = "get_token"
              /\ calls'[c].name \in {"msToken", "ttwid", "odin_tt"})
                 => IF calls'[c].name \in DOMAIN tm.tokens
                    THEN /\ tm' = tm
                         /\ calls'[c].pc = "returned"
                         /\ calls'[c].result = tm.tokens[calls'[c].name]
                         /\ ~calls'[c].fetched
                    ELSE /\ calls'[c].pc = "acquiring"
                         /\ calls'[c].fetched
                         /\ tm'.acquisitions[calls'[c].name]
                               = tm.acquisitions[calls'[c].name] + 1
                         /\ tm'.tokens = tm.tokens
       /\ DOMAIN tm.tokens \subseteq DOMAIN tm'.tokens]_vars

\* the first acquisition of msToken raised for caller b; with ttwid stored,
\* caller a asks for msToken and the second acquisition is under way
C39_Witness ==
    /\ calls["b"].pc = "raised"
    /\ calls["b"].name = "msToken"
    /\ calls["b"].ticket = 1
    /\ calls["b"].error = "httpx"
    /\ calls["a"].pc = "acquiring"
    /\ calls["a"].name = "msToken"
    /\ calls["a"].ticket = 2
    /\ DOMAIN tm.tokens = {"ttwid"}

\* C40: while a batch of reply crawls is under way the three tokens are
\* stored, no crawl of the batch is acquiring a token or has acquired one,
\* and no step starts an acquisition or stores a token.
C40_FanoutFindsTokensCached ==
    /\ [](\A t \in OneJob :
            pc[t] = "fr_gather"
                => /\ {"msToken", "ttwid", "odin_tt"} \subseteq DOMAIN tm.tokens
                   /\ \A c \in Callers : calls[c].pc # "acquiring" /\ ~calls[c].fetched)
    /\ [][\A t \in OneJob : pc[t] = "fr_gather" => tm' = tm]_vars

\* the reply crawls of comments 1 and 2 are both inside get_tiktok_headers:
\* each was returned a stored token, each token was acquired once
C40_Witness ==
    /\ pc["t1"] = "fr_gather"
    /\ calls["a"].pc = "returned" /\ calls["a"].name = "ttwid" /\ ~calls["a"].fetched
    /\ calls["b"].pc = "returned" /\ calls["b"].name = "ttwid" /\ ~calls["b"].fetched
    /\ \A n \in {"msToken", "ttwid", "odin_tt"} : tm.acquisitions[n] = 1
    /\ \A c \in DOMAIN crawls["t1"] : crawls["t1"][c].st = "wait"
    /\ DOMAIN crawls["t1"] = {1, 2}

(***************************************************************************)
(* Properties of the signing.                                              *)
(***************************************************************************)
\* C22: a get_final_url call that fails has used its three attempts and
\* fails with SigningError.
C22_SigningFailsAsSigningError ==
    sg.gb.pc = "raised" => sg.gb.error = "SigningError" /\ sg.gb.attempts = 3

C36_CancelledWhilePendingNeverRuns ==
    [][\A t \in DOMAIN tasks :
          (pc[t] = "queued" /\ tasks[t].status = "cancelled")
              => /\ tasks'[t].status # "running"
                 /\ remote'[t].page_requests = remote[t].page_requests]_vars

\* the background execution of t has returned or was left by an error
Stopped(t) == pc[t] \in {"done", "escaped"}

\* a reply pagination of t receives has_more = false or a failure
LastAnswer(t) ==
    \E c \in DOMAIN crawls[t] :
        \/ reply_fail(t, c)
        \/ \E ans \in ReplyAnswers(c, crawls[t][c].rpage) :
              ~ans.more /\ reply_response(t, c, ans)

\* C37: if every pagination comes to receive has_more = false or a
\* failure, a submitted job comes to a terminal status with its execution
\* stopped; and after a cancel the execution stops whatever the remote goes
\* on answering.
C37_EveryJobStops ==
    \A t \in OneJob :
        /\ SF_vars(LastAnswer(t))
              => ((t \in DOMAIN tasks) ~> (Stopped(t) /\ tasks[t].status \in Terminal))
        /\ (t \in DOMAIN tasks /\ tasks[t].status = "cancelled") ~> Stopped(t)

\* the base has a query string
HasQuery(base) == \E k \in 1..Len(base) : base[k] = "?"

C23_SessionSpansTheCrawl ==
    /\ [][\A t \in TaskIds :
            (\/ remote'[t].page_requests > remote[t].page_requests
             \/ remote'[t].reply_requests > remote[t].reply_requests)
                => crawler[t] = "open"]_vars
    /\ [](\A t \in TaskIds : pc[t] = "done" => crawler[t] # "open")

(***************************************************************************)
(* Properties of a failed page.                                            *)
(***************************************************************************)
\* C25: after the failure of page request k of fetch_comments_with_progress
\* no page request is sent, the loop has counted k-1 pages and returns the
\* comments of those pages, in order, which are the comments the result
\* holds; a reply crawl one of whose pages failed is over, is served no
\* further page, and returns the replies served to it before.
C25_FailedPageEndsLoopKeepsItems ==
    /\ [][\A t \in TaskIds :
            /\ PageFailed(t) => remote'[t].page_requests = remote[t].page_requests
            /\ \A c \in remote[t].refused :
                  remote'[t].replied[c] = remote[t].replied[c]]_vars
    /\ [](\A t \in TaskIds :
            /\ PageFailed(t)
                  => /\ fc[t].page = remote[t].page_requests - 1
                     /\ fc[t].all_comments = remote[t].served
                     /\ artifact[t] # <<>>
                           => ArtifactIds(artifact[t][1]) = remote[t].served
            /\ \A c \in remote[t].refused \cap DOMAIN crawls[t] :
                  /\ crawls[t][c].st = "done"
                  /\ crawls[t][c].all_replies = remote[t].replied[c])

\* the second page request failed, the 20 comments of the first page are in
\* the written result; the reply crawl of comment 1 failed on its second
\* page and returned the reply of its first
C25_Witness ==
    \E t \in TaskIds :
        /\ PageFailed(t)
        /\ remote[t].page_requests = 2
        /\ artifact[t] # <<>>
        /\ Len(artifact[t][1].comments) = 20
        /\ 1 \in remote[t].refused
        /\ remote[t].replied[1] = 1
        /\ fr[t].reply_counts[1] = 1

(***************************************************************************)
(* Properties of the cursor.                                               *)
(***************************************************************************)
\* the unanswered request of a pagination, if there is one, carries 0 when
\* no page was returned and the cursor of the last page otherwise
EchoesCursor(request, told) ==
    /\ Len(request) <= 1
    /\ Len(told) <= 1
    /\ request # <<>> => request[1] = IF told = <<>> THEN 0 ELSE told[1]

\* C26: in fetch_comments_with_progress and in every fetch_comment_replies
\* the first request carries cursor 0 and every later request the cursor
\* the page before it returned; a request is sent only when no request of
\* the loop is unanswered and every page returned has been read into the
\* locals of the loop, and a request is unanswered only while its loop
\* waits for it or after it failed.
C26_CursorIsEchoedInOrder ==
    /\ [][\A t \in TaskIds :
            remote'[t].page_requests > remote[t].page_requests
                => /\ remote[t].request = <<>>
                   /\ remote[t].page_requests = fc[t].page
                   /\ remote'[t].request # <<>>]_vars
    /\ [](\A t \in TaskIds :
            /\ EchoesCursor(remote[t].request, remote[t].told)
            /\ remote[t].told = <<>> <=> remote[t].served = <<>> /\ fc[t].page = 0
            /\ remote[t].request # <<>> => pc[t] = "fc_wait" \/ PageFailed(t)
            /\ \A c \in DOMAIN crawls[t] :
                  /\ EchoesCursor(crawls[t][c].request, crawls[t][c].told)
                  /\ crawls[t][c].told = <<>> <=> remote[t].replied[c] = 0
                  /\ crawls[t][c].request # <<>>
                        => \/ c \in remote[t].refused
                           \/ c \in DOMAIN crawls[t] /\ crawls[t][c].st = "wait")

\* the second page request, which failed, carried the cursor 10 the first
\* page returned, and the reply crawl of a comment waits for its second
\* page, asked with the cursor 1 its first page returned
C26_Witness ==
    \E t \in TaskIds :
        /\ remote[t].page_requests = 2
        /\ remote[t].request = <<10>>
        /\ remote[t].told = <<10>>
        /\ \E c \in DOMAIN crawls[t] :
              /\ crawls[t][c].st = "wait"
              /\ crawls[t][c].request = <<1>>
              /\ crawls[t][c].told = <<1>>

(***************************************************************************)
(* Properties of a failed reply crawl.                                     *)
(***************************************************************************)
\* C27 as stated: a parent whose reply crawl failed is recorded with 0 or
\* has no entry, and the failure leaves the sibling crawls and the batch
\* as they are.
C27_FailedCrawlCountsZeroOrAbsent ==
    /\ [][\A t \in TaskIds :
            remote'[t].refused # remote[t].refused
                => /\ pc'[t] = pc[t]
                   /\ \A c \in DOMAIN crawls[t] \ remote'[t].refused :
                         crawls'[t][c] = crawls[t][c]]_vars
    /\ [](\A t \in TaskIds :
            \A c \in remote[t].refused \cap DOMAIN fr[t].reply_counts :
                fr[t].reply_counts[c] = 0)

\* C27: a parent whose reply crawl failed is a key of the mapping once its
\* batch is gathered, recorded with the number of replies served to its
\* crawl before the failure (0 when its first page failed); the failure
\* changes no sibling crawl and does not end the gather, and every sibling
\* of a gathered batch is recorded with the replies served to it.
C27_FailedCrawlCountsServedReplies ==
    /\ [][\A t \in TaskIds :
            remote'[t].refused # remote[t].refused
                => /\ pc'[t] = pc[t]
                   /\ \A c \in DOMAIN crawls[t] \ remote'[t].refused :
                         crawls'[t][c] = crawls[t][c]]_vars
    /\ [](\A t \in TaskIds :
            \A k \in 1..Len(fr[t].valid_comments) :
                k <= fr[t].i
                    => LET c == fr[t].valid_comments[k]
                       IN /\ c \in DOMAIN fr[t].reply_counts
                          /\ fr[t].reply_counts[c] = remote[t].replied[c])

\* the crawl of comment 1 failed on its second page and is recorded with 1,
\* the crawl of comment 2 failed on its first page and is recorded with 0,
\* their sibling 3 is recorded with its reply
C27_Witness ==
    \E t \in TaskIds :
        /\ remote[t].refused = {1, 2}
        /\ fr[t].i = batch_size
        /\ fr[t].reply_counts[1] = 1
        /\ fr[t].reply_counts[2] = 0
        /\ fr[t].reply_counts[3] = 1

(***************************************************************************)
(* Properties of the reply fan-out.                                        *)
(***************************************************************************)
\* the reply crawls of a job that have not returned
InFlight(t) == { c \in DOMAIN crawls[t] : crawls[t][c].st = "wait" }

\* C28: a job has at most batch_size reply crawls in flight; the crawls
\* that exist are those of the parents at positions i+1..i+batch_size of
\* valid_comments, and the crawl of every parent before them has returned
\* and is recorded; a step that starts reply crawls finds none in flight.
C28_BatchesRunOneAfterAnother ==
    /\ [][\A t \in TaskIds :
            (\E c \in DOMAIN crawls'[t] : c \notin DOMAIN crawls[t])
                => InFlight(t) = {}]_vars
    /\ [](\A t \in TaskIds :
            /\ Cardinality(InFlight(t)) <= batch_size
            /\ Cardinality(DOMAIN crawls[t]) <= batch_size
            /\ \A c \in DOMAIN crawls[t] :
                  \E k \in 1..Len(fr[t].valid_comments) :
                      /\ fr[t].valid_comments[k] = c
                      /\ fr[t].i < k
                      /\ k <= fr[t].i + batch_size
            /\ \A k \in 1..Len(fr[t].valid_comments) :
                  k <= fr[t].i => /\ fr[t].valid_comments[k] \in DOMAIN fr[t].reply_counts
                                  /\ fr[t].valid_comments[k] \notin DOMAIN crawls[t])

\* the second batch of ten parents is in flight after the eight crawls of
\* the first were recorded; in it the crawl of comment 10 has returned
\* while the crawl of comment 9 still waits for its page
C28_Witness ==
    \E t \in TaskIds :
        /\ fr[t].i = batch_size
        /\ Cardinality(DOMAIN fr[t].reply_counts) = batch_size
        /\ DOMAIN crawls[t] = {9, 10}
        /\ crawls[t][9].st = "wait"
        /\ crawls[t][10].st = "done"

\* the points of fetch_replies_with_progress
FrPoints == {"fr_loop", "fr_gather", "fr_sleep"}

\* C30: while a job stands cancelled inside fetch_replies_with_progress no
\* reply crawl is started for a parent that had none; at every step of the
\* fan-out each count recorded stays in the mapping with its value; and
\* the mapping returned is the one the result is written from.
C30_CancelStopsLaunchKeepsCounts ==
    /\ [][\A t \in DOMAIN tasks :
            pc[t] \in FrPoints
                => /\ tasks[t].status = "cancelled"
                      => /\ DOMAIN remote'[t].replied = DOMAIN remote[t].replied
                         /\ DOMAIN crawls'[t] \subseteq DOMAIN crawls[t]
                   /\ \A c \in DOMAIN fr[t].reply_counts :
                         /\ c \in DOMAIN fr'[t].reply_counts
                         /\ fr'[t].reply_counts[c] = fr[t].reply_counts[c]]_vars
    /\ [](\A t \in DOMAIN tasks :
            artifact[t] # <<>>
                => \A k \in 1..Len(artifact[t][1].comments) :
                      LET e == artifact[t][1].comments[k]
                      IN e.comment_id \in DOMAIN fr[t].reply_counts
                            => e.reply_comment_total = fr[t].reply_counts[e.comment_id])

\* a job of ten parents cancelled while its first batch was in flight: the
\* fetcher has returned the eight counts of that batch, no crawl was
\* started for the parents 9 and 10, and the result is written with them
C30_Witness ==
    \E t \in DOMAIN tasks :
        /\ tasks[t].status = "cancelled"
        /\ pc[t] = "cv_complete"
        /\ Len(fr[t].valid_comments) = 10
        /\ fr[t].i = batch_size
        /\ DOMAIN fr[t].reply_counts = 1..batch_size
        /\ DOMAIN remote[t].replied = 1..batch_size
        /\ artifact[t][1].total_replies = batch_size

(***************************************************************************)
(* Properties of the fan-out of several jobs.                              *)
(***************************************************************************)
\* C29: the reply crawls in flight, summed over the jobs that run, are at
\* most max_tasks.
C29_TotalInFlightWithinMaxTasks ==
    SumValues([j \in FanJobs |-> fan[j].inflight]) <= max_tasks

(***************************************************************************)
(* Properties of the cancellation inside the paginations.                  *)
(***************************************************************************)
\* C31: while a job stands cancelled no pagination of its crawl sends a
\* page request, neither fetch_comments_with_progress nor any
\* fetch_comment_replies.
C31_NoRequestOnceCancelled ==
    [][\A t \in DOMAIN tasks :
          tasks[t].status = "cancelled"
              => /\ remote'[t].page_requests = remote[t].page_requests
                 /\ remote'[t].reply_requests = remote[t].reply_requests]_vars

(***************************************************************************)
(* Properties of the progress.                                             *)
(***************************************************************************)
\* a <= p <= b for the whole numbers a and b
Within(p, a, b) == FLeq(Whole(a), p) /\ FLeq(p, Whole(b))

\* C32: the progress of a job is within [0, 100]; inside
\* fetch_comments_with_progress it is Min(10 + 2 * page, 50), within
\* [10, 50]; a step that completes a batch writes
\* 50 + 35 * processed / total, where processed is the number of parents of
\* the batches completed, within [50, 85], and that is 85 exactly when every
\* parent is processed.
C32_ProgressRanges ==
    /\ [][\A t \in DOMAIN tasks :
            (pc[t] = "fr_gather" /\ pc'[t] # "fr_gather")
                => LET total == Len(fr[t].valid_comments)
                       processed == Min(fr'[t].i, total)
                   IN /\ fr'[t].processed = processed
                      /\ tasks'[t].progress = Frac(50 * total + 35 * processed, total)
                      /\ Within(tasks'[t].progress, 50, 85)
                      /\ tasks'[t].progress = Whole(85) <=> processed = total]_vars
    /\ [](\A t \in DOMAIN tasks :
            /\ Within(tasks[t].progress, 0, 100)
            /\ pc[t] \in FcPoints
                  => /\ tasks[t].progress = Whole(Min(10 + 2 * fc[t].page, 50))
                     /\ Within(tasks[t].progress, 10, 50))

\* the crawl has read 21 pages, one more than the 20 at which its progress
\* reached 50, and the first batch of its ten parents is completed: the
\* progress is 50 + 35 * 8 / 10
C32_Witness ==
    \E t \in DOMAIN tasks :
        /\ fc[t].page = 21
        /\ Len(fr[t].valid_comments) = 10
        /\ fr[t].processed = batch_size
        /\ pc[t] = "fr_sleep"
        /\ tasks[t].progress = Whole(78)

(***************************************************************************)
(* Properties of the fetch paths.                                          *)
(***************************************************************************)
\* the step reads an answer with a body and the status code
AnswersBody(code) ==
    /\ fx.pc = "inflight"
    /\ Len(fx'.trace) = Len(fx.trace) + 1
    /\ fx'.trace[Len(fx'.trace)] = "body"
    /\ fx'.status_code = code

\* the step reads an answer with a blank body and the status code
AnswersEmpty(code) ==
    /\ fx.pc = "inflight"
    /\ Len(fx'.trace) = Len(fx.trace) + 1
    /\ fx'.trace[Len(fx'.trace)] = "empty"
    /\ fx'.status_code = code

\* C38: in get and post, a blank-bodied answer with an error status is an
\* empty-body attempt: a warning, and a backoff followed by the next
\* attempt, or the end of the call with None after the last attempt; no
\* error is raised for the status.  The same status with a body ends the
\* call on that attempt with the error of that status, no wait, no request.
C38_BlankTestComesFirst ==
    [][/\ \A code \in {c \in EmptyCodes : c >= 400} :
             (AnswersEmpty(code) /\ fx.method \in {"get", "post"})
                 => /\ fx'.warned = fx.warned + 1
                    /\ fx'.pc # "raised"
                    /\ fx'.detail = fx.detail
                    /\ IF fx.attempt < fx.max_retries - 1
                       THEN /\ fx'.pc = "sleep"
                            /\ fx'.slept = fx.slept + 1
                            /\ NextAttempt(fx').pc = "inflight"
                            /\ NextAttempt(fx').sent = fx.sent + 1
                       ELSE /\ fx'.pc = "returned"
                            /\ fx'.result = "None"
                            /\ fx'.slept = fx.slept
                    /\ fx'.sent = fx.sent
       /\ \A code \in {c \in EmptyCodes : c >= 400} :
             (AnswersBody(code) /\ fx.method \in {"get", "post"})
                 => /\ fx'.pc = "raised"
                    /\ fx'.result = handle_http_status_error(code)
                    /\ fx'.result \in {"APINotFoundError", "APIRateLimitError"}
                    /\ fx'.detail = code
                    /\ fx'.sent = fx.sent
                    /\ fx'.slept = fx.slept
                    /\ fx'.warned = fx.warned]_vars

\* a get call whose first answer was blank with status 429 and whose second
\* had a body with status 429: one warning, one wait, two requests
C38_Witness ==
    /\ fx.method = "get"
    /\ fx.outcomes = <<[kind |-> "empty", code |-> 429], [kind |-> "body", code |-> 429]>>
    /\ fx.pc = "raised"
    /\ fx.result = "APIRateLimitError"
    /\ fx.warned = 1
    /\ fx.slept = 1
    /\ fx.sent = 2

\* C33: an answer with a body and status 302 ends the call: the caller
\* receives that response, no error is raised and no further request is
\* sent.
C33_Status302PassesThrough ==
    [][AnswersBody(302)
          => /\ fx'.pc = "returned"
             /\ fx'.result = "response"
             /\ fx'.sent = fx.sent]_vars

\* C34: a call that has ended would have ended with the same number of
\* requests and the same outcome had it been made through any of get, post
\* and head with the same max_retries and the same answers of the transport.
C34_OnePolicyForAllPaths ==
    fx.pc \in {"returned", "raised"}
        => \A m \in Methods :
              LET g == Feed(FirstRequest(m, fx.max_retries), fx.outcomes)
              IN /\ g.pc = fx.pc
                 /\ g.result = fx.result
                 /\ g.sent = fx.sent

====
